---- MODULE Spec2Model ----
(***************************************************************************)
(* A model of the asmtp broker daemon (asmtpd) and of the stores it uses.  *)
(*                                                                         *)
(* Spec          the Runner loop, the connection map and the per-peer      *)
(*               connection tasks (asmtpd/src/network).                    *)
(* PassportSpec  the passport store (asmtp-storage/src/passports.rs).      *)
(* DispatchSpec  the control messages of the peers (handle_message and     *)
(*               asmtpd/src/storage/mod.rs).                               *)
(* TopicSpec     the topic logs (asmtp-storage/src/message.rs).            *)
(* SessionSpec   the REST session cache (asmtpd/src/rest/sessions.rs).     *)
(* RestSpec      the REST requests that ask for a session (asmtpd/src/rest).*)
(* TopicRestSpec the time-bounded requests of a topic (rest/handler/       *)
(*               topic.rs).                                                *)
(* DecodeSpec    the decoding of a plaintext (asmtp-network/src/           *)
(*               message.rs).                                              *)
(* CodecSpec     the lengths of the frames (asmtp-network/src/codec/       *)
(*               encryption.rs).                                           *)
(* MessageIdSpec the bytes of a message id (asmtp-lib/src/message_id.rs).  *)
(* GossipSpec    the persisted gossips (asmtpd/src/storage/gossips.rs).    *)
(* CacheSpec     the dedup cache and the gossip cache of the Runner        *)
(*               (asmtpd/src/network/mod.rs).                              *)
(* ImporterSpec  the passport importer (asmtp-storage/src/passports.rs).   *)
(* EvictSpec     the eviction loops of the two caches, step by step;       *)
(*               EvictFairSpec is EvictSpec with the steps taken.          *)
(* SubscriptionSpec  the subscriptions of the storage and of the topology  *)
(*               (asmtpd/src/network/topology.rs).                         *)
(***************************************************************************)
EXTENDS Integers, Sequences, FiniteSets, TLC

(***************************************************************************)
(* Bounds of the model.  The queue and cache sizes are configuration       *)
(* values of the program (network/config.rs); the model runs them small.   *)
(***************************************************************************)
\* number of distinct message bodies the peers may send
NBodies == 2
\* number of connection tasks (dials and accepts) ever spawned
MaxConns == 2
\* number of events from outside the broker: frames the peers send,
\* connections the listener yields, answers of the gossip scheduler
MaxEvents == 4
\* capacity of one peer's outbox: mpsc::channel(8) in the program
OutboxCapacity == 1
\* config.message_queue_size (64 by default)
MessageQueueSize == 1
\* config.known_message_cache_size (10 240 by default)
KnownMessageCacheSize == 2
\* config.max_opened_connections (128 by default)
MaxOpenedConnections == 1
\* number of gossips of one Command::Gossips
MaxGossips == 1

\* number of passport blocks
NBlocks == 4
\* length of the chains given to put_passport
MaxChain == 2
\* number of writes of one call the storage engine may answer
MaxWrites == 4
\* number of blocks of the chain given to the importer
ChainLength == 5
\* number of digests given to the dedup cache alone
NDigests == 3
\* number of identities the gossip scheduler hears of
NGossipPeers == 3
\* config.gossiping: queue_size (128 by default), history_size (10 240) and
\* minimum_time_elapsed (30 s), and the last instant of the scheduler's clock
GossipQueueSize == 2
GossipHistorySize == 2
MinElapsed == 2
MaxCacheTime == 3
\* the largest bound of a cache that evicts (0 included)
MaxEvictBound == 2
\* the digests or identities an evicting cache may hold
NEvictItems == 3
\* the clock of the topic logs runs from 0 to MaxTime seconds
MaxTime == 1
\* number of messages the topic logs hold
MaxInserts == 2
\* number of session ids
NSessions == 2
\* SessionConfig: max_active_sessions, max_idle and max_lifespan (seconds)
MaxActiveSessions == 1
MaxIdle == 1
MaxLifespan == 2
\* the ticks of the clock of the sessions in one second, and its last tick
TicksPerSecond == 2
MaxTicks == 7
\* longest plaintext tried besides the longest ones a frame may carry
MaxPlain == 40
\* number of length prefixes of a list of blocks that declare a size
MaxDeclared == 2
\* largest size a length prefix declares
MaxBlockSize == 8
\* number of gossips, last instant of the clock of the gossips,
\* Config::gossip_refresh_rate
NGossipIds == 2
MaxGossipTime == 6
MinGossipRefresh == 1
\* longest plaintext given to the encoder
MaxPlainLength == 65600

\* Version::MIN, Version::MAX (asmtp-network/src/version.rs)
VersionMin == 1
VersionMax == 1

PeerList == <<"p1", "p2">>
Peers == {PeerList[i] : i \in 1 .. Len(PeerList)}
NoPeer == "nobody"
Topics == {"t1", "t2"}
Bodies == 1 .. NBodies
Conns == 1 .. MaxConns
NoConn == 0
\* the version bytes an initiator may present
Versions == {VersionMin - 1, VersionMin, VersionMax + 1}

VARIABLES
    runner,        \* the Runner task: position in run()/handle_message()
    known_cache,   \* Runner::known_cache.messages, an IndexSet in insertion order
    topic_log,     \* per topic, the bodies stored by Message::insert, in order
    subscribed,    \* the persisted subscription set (asmtp::topics::)
    queue,         \* Connections::message_receiver: inbound (peer, message)
    to,            \* Connections::to, the LRU map, least recently used first
    conn,          \* the spawned connection tasks (connect / accept)
    wire,          \* per connection task, the last frame it wrote to its peer
    delivered,     \* per connection task, the number of its last message
                   \* the Runner received
    seen,          \* per message, the other bodies checked since it was checked
    nevents,       \* events from outside so far
    passports,     \* the passport store (see PassportSpec)
    store,         \* the topic logs, the clock and the handling of the
                   \* control messages (see DispatchSpec)
    sessions,      \* the REST session cache (see SessionSpec)
    http,          \* the last REST request and its answer (see RestSpec)
    decoded,       \* a plaintext and what MessageSlice::try_from_slice makes
                   \* of it (see DecodeSpec)
    codec,         \* a frame length or a plaintext length and what the
                   \* codec makes of it (see CodecSpec)
    msgid,         \* two message ids and their order (see MessageIdSpec)
    gossip_store,  \* the persisted gossips (see GossipSpec)
    topic_reply,   \* the last REST request about the messages of a topic
                   \* and its answer (see TopicRestSpec)
    gossipers,     \* Runner::gossipers, the GossipCache (see CacheSpec)
    importer,      \* a PassportImporter and the blocks given to it (see
                   \* ImporterSpec)
    evict,         \* an eviction loop of a cache, step by step (see
                   \* EvictSpec)
    topology       \* the subscriptions of the poldercast topology (see
                   \* SubscriptionSpec)

netvars == <<runner, known_cache, topic_log, subscribed, queue, to, conn,
             wire, delivered, seen, nevents>>
\* the variables added for the REST requests
calcvars == <<decoded, codec, msgid>>
\* the variables of the caches and of the importer
cachevars == <<gossipers, importer, evict, topology>>
\* everything the Runner's caches leave alone
storevars_but_caches ==
    <<passports, store, sessions, http, gossip_store, topic_reply, calcvars>>
restkept == <<gossip_store, topic_reply, calcvars, cachevars>>
extvars == <<http, restkept>>
storevars == <<passports, store, sessions, extvars>>
vars == <<netvars, storevars>>

(***************************************************************************)
(* Sequences                                                               *)
(***************************************************************************)
Range(s) == {s[i] : i \in 1 .. Len(s)}

RemoveAt(s, i) == SubSeq(s, 1, i - 1) \o SubSeq(s, i + 1, Len(s))

\* a set of peers as a list, in the order of the identities
SetToSeq(S) == SelectSeq(PeerList, LAMBDA p : p \in S)

(***************************************************************************)
(* lru::LruCache<PublicKey, mpsc::Sender<Command>> as a sequence of        *)
(* [id, ch], least recently used first.  ch names the connection task     *)
(* that owns the receiving end of the outbox.                              *)
(***************************************************************************)
LruIndex(m, id) ==
    IF \E i \in 1 .. Len(m) : m[i].id = id
    THEN CHOOSE i \in 1 .. Len(m) : m[i].id = id
    ELSE 0

\* LruCache::contains: no change of the recency order
LruContains(m, id) == LruIndex(m, id) # 0

\* LruCache::get: the entry becomes the most recently used
LruGet(m, id) ==
    LET i == LruIndex(m, id)
    IN  IF i = 0 THEN m ELSE Append(RemoveAt(m, i), m[i])

\* LruCache::put: replace and promote, or insert, evicting the least
\* recently used entry of a full cache
LruPut(m, id, ch) ==
    LET i == LruIndex(m, id)
        e == [id |-> id, ch |-> ch]
    IN  IF i # 0 THEN Append(RemoveAt(m, i), e)
        ELSE IF Len(m) >= MaxOpenedConnections THEN Append(Tail(m), e)
        ELSE Append(m, e)

\* LruCache::pop
LruPop(m, id) ==
    LET i == LruIndex(m, id)
    IN  IF i = 0 THEN m ELSE RemoveAt(m, i)

InMap(m, c) == \E i \in 1 .. Len(m) : m[i].ch = c

(***************************************************************************)
(* MessageCache (network/mod.rs).  IndexSet::pop removes the LAST element  *)
(* of the insertion order; IndexSet::insert leaves a present element in    *)
(* place and answers false.                                                *)
(***************************************************************************)
RECURSIVE PopWhileFull(_, _)
PopWhileFull(s, max) ==
    IF Len(s) >= max /\ Len(s) > 0
    THEN PopWhileFull(SubSeq(s, 1, Len(s) - 1), max)
    ELSE s

\* MessageCache::check: the cache after the call
CheckCache(s, h) ==
    LET t == PopWhileFull(s, KnownMessageCacheSize)
    IN  IF h \in Range(t) THEN t ELSE Append(t, h)

\* MessageCache::check: its answer, true when the digest was not known
CheckNovel(s, h) == h \notin Range(PopWhileFull(s, KnownMessageCacheSize))

\* Blake2b-256 of the content: injective on the bodies of the model
Digest(body) == body

(***************************************************************************)
(* Connection tasks.  Each spawned connect() or accept() is one slot:      *)
(*   pc    "free"      not spawned yet                                     *)
(*         "dialing"   connect(): Connection::connect_to pending           *)
(*         "handshake" accept(): initiator message not read yet            *)
(*         "accepted"  accept(): check_id answered true, response pending  *)
(*         "run"       Runtime::run at its select!                         *)
(*         "push"      Runtime::run in message_sender.send(..).await       *)
(*         "exit"      Runtime::run returned, entries.pop(&id) pending     *)
(*         "done"      the task ended                                      *)
(*   outbox  the commands queued in its mpsc::channel(8)                   *)
(*   held    the message being pushed to the inbound queue                 *)
(*   nenq    commands ever put in the outbox (each carries its number)     *)
(*   narr    messages ever decoded from the peer (each carries its number) *)
(*   ver, noise, pred, responded   what the responder handshake read, what *)
(*           check_id answered and whether the response was written        *)
(* A task that ended leaves nothing behind: its slot is DoneConn.          *)
(***************************************************************************)
NoMsg == [topic |-> "none", body |-> 0]

FreeConn ==
    [pc |-> "free", kind |-> "none", id |-> NoPeer, outbox |-> <<>>,
     held |-> NoMsg, nenq |-> 0, narr |-> 0,
     ver |-> VersionMin, noise |-> TRUE, pred |-> FALSE,
     responded |-> FALSE]

DoneConn == [FreeConn EXCEPT !.pc = "done"]

\* no frame written yet
NoFrame == [seq |-> 0, k |-> 0]

Running(c) == conn[c].pc \in {"run", "push"}

\* the receiving end of the outbox was dropped: Sender::is_closed()
ReceiverDropped(c) == conn[c].pc \in {"exit", "done"}

\* connect() is spawned from an async block that owns a clone of the
\* sender for as long as connect() runs (get_or_connect, lines 101-117)
DialHoldsSender(c) ==
    conn[c].kind = "dial" /\ conn[c].pc \notin {"free", "done"}

\* accept() owns the sender until entries.put moves it into the map
AcceptHoldsSender(c) ==
    conn[c].kind = "accept" /\ conn[c].pc \in {"handshake", "accepted"}

\* some mpsc::Sender of the outbox of c is alive
SenderAlive(c) ==
    \/ InMap(to, c)
    \/ DialHoldsSender(c)
    \/ AcceptHoldsSender(c)
    \/ runner.chan = c

\* command_receiver.recv() answers None
OutboxClosed(c) == ~SenderAlive(c) /\ conn[c].outbox = <<>>

\* a check of the lower end of the range alone
IsSupportedFromMin(v) == VersionMin <= v

\* Version::is_supported
IsSupported(v) == VersionMin <= v /\ v <= VersionMax

\* the lowest slot no task was spawned in
HasFree == \E c \in Conns : conn[c].pc = "free"

NextFree ==
    IF HasFree
    THEN CHOOSE c \in Conns : conn[c].pc = "free" /\
             \A d \in Conns : conn[d].pc = "free" => c <= d
    ELSE NoConn

(***************************************************************************)
(* Messages and commands                                                   *)
(***************************************************************************)
\* Message::new_topic(topic, content), the only message the peers of this
\* model send
Msgs == [topic : Topics, body : Bodies]

\* Command::Send(message), numbered seq in its outbox
SendCmd(m, seq) == [type |-> "Send", msg |-> m, n |-> 0, seq |-> seq]

\* Command::Gossips(gossips) of n gossips
GossipsCmd(n, seq) == [type |-> "Gossips", msg |-> NoMsg, n |-> n, seq |-> seq]

(***************************************************************************)
(* Topology::view_for(from, selection): the overlay library answers some   *)
(* list of known profiles; with an origin given, the origin is not part of *)
(* the view.                                                               *)
(***************************************************************************)
ViewFor(from) == {SetToSeq(S) : S \in SUBSET (Peers \ {from})}

\* view_for called without an origin (None), as for the gossip selection
ViewOriginNone(peer) == NoPeer

\* the origin handle_message gives view_for: Some(&peer)
ViewOrigin(peer) == peer

(***************************************************************************)
(* Storage::handle_incoming_message for a topic that is no passport topic: *)
(* the content is inserted in the log of a subscribed topic and ignored    *)
(* otherwise; io says whether the storage engine answered without error.   *)
(***************************************************************************)
HandleIncomingMessage(topic, body, io) ==
    IF ~io THEN [ok |-> FALSE, log |-> topic_log]
    ELSE IF topic \in subscribed
         THEN [ok |-> TRUE,
               log |-> [topic_log EXCEPT ![topic] = Append(@, body)]]
         ELSE [ok |-> TRUE, log |-> topic_log]

(***************************************************************************)
(* The Runner (network/mod.rs).                                            *)
(*   pc    "top"          start of a loop iteration (gossip scheduling)    *)
(*         "select"       suspended in tokio::select!                      *)
(*         "send_all"     in Connections::send_all for a Topic message     *)
(*         "send_gossips" in Connections::send_gossips                     *)
(*         "stopped"      run() returned                                   *)
(*   from  the peer whose message is being handled                         *)
(*   msg   the message or n the number of gossips being sent               *)
(*   full  the view the message is sent to, view what is left of it        *)
(*   sent  the peers whose outbox got the command                          *)
(*   chan  the outbox the Runner is suspended on in Sender::send, if any   *)
(***************************************************************************)
IdleRunner(pc) ==
    [pc |-> pc, from |-> NoPeer, msg |-> NoMsg, n |-> 0, full |-> <<>>,
     view |-> <<>>, sent |-> {}, chan |-> NoConn]

\* what a check of the content of m does to the record of the bodies
\* checked since each message was handled ({0}: never handled)
SeenAfter(m) ==
    [x \in Msgs |->
        IF x = m THEN {}
        ELSE IF seen[x] = {0} \/ x.body = m.body THEN seen[x]
        ELSE seen[x] \cup {m.body}]

\* the Runner goes on with the next target, or is through with the view
Advance(r, ok) ==
    LET rest == Tail(r.view)
        sent == IF ok THEN r.sent \cup {Head(r.view)} ELSE r.sent
    IN  IF rest = <<>> THEN IdleRunner("top")
        ELSE [r EXCEPT !.view = rest, !.sent = sent, !.chan = NoConn]

\* the command the Runner is sending, as queued in the outbox of c
RunnerCmd(c) ==
    IF runner.pc = "send_all"
    THEN SendCmd(runner.msg, conn[c].nenq + 1)
    ELSE GossipsCmd(runner.n, conn[c].nenq + 1)

Enqueue(cn, c, cmd) ==
    [cn EXCEPT ![c].outbox = Append(@, cmd), ![c].nenq = @ + 1]

\* Runner::handle_message, the Topic branch, up to the call of send_all
HandleTopic(e) ==
    LET peer == e.peer
        m == e.msg
        novel == CheckNovel(known_cache, Digest(m.body))
    IN  /\ known_cache' = CheckCache(known_cache, Digest(m.body))
        /\ seen' = SeenAfter(m)
        /\ IF ~novel
           THEN /\ runner' = IdleRunner("top")
                /\ UNCHANGED topic_log
           ELSE \E io \in BOOLEAN :
                  LET r == HandleIncomingMessage(m.topic, m.body, io)
                  IN  /\ topic_log' = r.log
                      /\ IF ~r.ok
                         THEN runner' = IdleRunner("top")
                         ELSE \E v \in ViewFor(ViewOrigin(peer)) :
                                runner' =
                                  IF v = <<>> THEN IdleRunner("top")
                                  ELSE [pc |-> "send_all", from |-> peer,
                                        msg |-> m, n |-> 0, full |-> v,
                                        view |-> v, sent |-> {},
                                        chan |-> NoConn]

\* one turn of the select! loop that takes an inbound message
RunnerReceive ==
    /\ runner.pc = "select"
    /\ queue # <<>>
    /\ LET e == Head(queue)
       IN  /\ queue' = Tail(queue)
           /\ delivered' = [delivered EXCEPT ![e.conn] = e.seq]
           /\ HandleTopic(e)
    /\ UNCHANGED <<subscribed, to, conn, wire, nevents, storevars>>

(***************************************************************************)
(* Connections::get_or_connect: the map after the call, the outbox it      *)
(* answers and whether a connect() task was spawned for it.  An entry      *)
(* whose receiver is gone is popped and a new dial is spawned; the new     *)
(* sender is NOT put in the map before connect() has its connection.       *)
(***************************************************************************)
GetOrConnect(id) ==
    LET i == LruIndex(to, id)
    IN  IF i # 0 /\ ~ReceiverDropped(to[i].ch)
        THEN [to |-> LruGet(to, id), ch |-> to[i].ch, spawn |-> FALSE]
        ELSE [to |-> LruPop(to, id), ch |-> NextFree, spawn |-> TRUE]

\* the task spawned by get_or_connect for node id
Dialing(id) ==
    [FreeConn EXCEPT !.pc = "dialing", !.kind = "dial", !.id = id]

\* Connections::send / send_gossips for the next peer of the view:
\* get_or_connect, then Sender::send(..).await, which waits for room
RunnerSend ==
    /\ runner.pc \in {"send_all", "send_gossips"}
    /\ runner.chan = NoConn
    /\ LET id == Head(runner.view)
           g == GetOrConnect(id)
           c == g.ch
           cn == IF g.spawn /\ HasFree
                 THEN [conn EXCEPT ![c] = Dialing(id)] ELSE conn
       IN  /\ to' = g.to
           /\ IF g.spawn /\ ~HasFree
              THEN \* no task left in the model: the dial fails at once
                   /\ conn' = conn
                   /\ runner' = Advance(runner, FALSE)
              ELSE IF Len(cn[c].outbox) < OutboxCapacity
              THEN /\ conn' = Enqueue(cn, c, RunnerCmd(c))
                   /\ runner' = Advance(runner, TRUE)
              ELSE /\ conn' = cn
                   /\ runner' = [runner EXCEPT !.chan = c]
    /\ UNCHANGED <<known_cache, topic_log, subscribed, queue, wire,
                   delivered, seen, nevents, storevars>>

\* Sender::send(..).await resumes: room was made, or the receiver is gone
RunnerSendResume ==
    /\ runner.chan # NoConn
    /\ LET c == runner.chan
       IN  IF ReceiverDropped(c)
           THEN /\ runner' = Advance(runner, FALSE)
                /\ UNCHANGED conn
           ELSE /\ Len(conn[c].outbox) < OutboxCapacity
                /\ conn' = Enqueue(conn, c, RunnerCmd(c))
                /\ runner' = Advance(runner, TRUE)
    /\ UNCHANGED <<known_cache, topic_log, subscribed, queue, to, wire,
                   delivered, seen, nevents, storevars>>

\* the start of a loop iteration: gossips for the peer the scheduler
\* answers, if it answers one, then the select!
RunnerTop ==
    /\ runner.pc = "top"
    /\ \/ /\ runner' = IdleRunner("select")
          /\ UNCHANGED nevents
       \/ /\ nevents < MaxEvents
          /\ nevents' = nevents + 1
          /\ \E id \in Peers, n \in 1 .. MaxGossips :
               runner' = [IdleRunner("send_gossips") EXCEPT
                             !.n = n, !.full = <<id>>, !.view = <<id>>]
    /\ UNCHANGED <<known_cache, topic_log, subscribed, queue, to, conn,
                   wire, delivered, seen, storevars>>

\* the heart beat branch of the select!: beat() logs and the loop goes on
RunnerBeat ==
    /\ runner.pc = "select"
    /\ runner' = IdleRunner("top")
    /\ UNCHANGED <<known_cache, topic_log, subscribed, queue, to, conn,
                   wire, delivered, seen, nevents, storevars>>

\* Command::Shutdown (or the command channel closed): run() returns, the
\* Runner is dropped and with it the receiving end of the inbound queue
RunnerShutdown ==
    /\ runner.pc = "select"
    /\ runner' = IdleRunner("stopped")
    /\ queue' = <<>>
    /\ UNCHANGED <<known_cache, topic_log, subscribed, to, conn, wire,
                   delivered, seen, nevents, storevars>>

\* the listener yields an inbound connection: Connections::accept spawns
\* accept() for it
RunnerAccept ==
    /\ runner.pc = "select"
    /\ HasFree
    /\ conn' = [conn EXCEPT ![NextFree] =
                   [FreeConn EXCEPT !.pc = "handshake", !.kind = "accept"]]
    /\ runner' = IdleRunner("top")
    /\ nevents < MaxEvents
    /\ nevents' = nevents + 1
    /\ UNCHANGED <<known_cache, topic_log, subscribed, queue, to, wire,
                   delivered, seen, storevars>>

(***************************************************************************)
(* accept() (network/connections.rs) around Accepting::accept              *)
(* (asmtp-network/src/accept.rs)                                           *)
(***************************************************************************)
\* the predicate accept() gives the handshake
CheckId(id) == ~LruContains(to, id)

\* Accepting::accept up to check_id: the initiator message is read, its
\* version checked, the Noise message verified, the identity checked
AcceptCheck(c) ==
    /\ conn[c].pc = "handshake"
    /\ \E id \in Peers, v \in Versions, noise \in BOOLEAN :
         conn' = [conn EXCEPT ![c] =
                    IF IsSupported(v) /\ noise /\ CheckId(id)
                    THEN [@ EXCEPT !.pc = "accepted", !.id = id, !.ver = v,
                                   !.noise = noise, !.pred = TRUE]
                    ELSE DoneConn]
    /\ UNCHANGED <<runner, known_cache, topic_log, subscribed, queue, to,
                   wire, delivered, seen, nevents, storevars>>

\* Accepting::accept after check_id: the response is written; then
\* accept() puts its sender in the map and runs the connection
AcceptRegister(c) ==
    /\ conn[c].pc = "accepted"
    /\ \/ /\ conn' = [conn EXCEPT ![c].responded = TRUE, ![c].pc = "run"]
          /\ to' = LruPut(to, conn[c].id, c)
       \/ /\ conn' = [conn EXCEPT ![c] = DoneConn]
          /\ UNCHANGED to
    /\ UNCHANGED <<runner, known_cache, topic_log, subscribed, queue, wire,
                   delivered, seen, nevents, storevars>>

(***************************************************************************)
(* connect() (network/connections.rs)                                      *)
(***************************************************************************)
\* Connection::connect_to answers: the sender is put in the map and the
\* connection runs, or connect() returns the error
DialComplete(c) ==
    /\ conn[c].pc = "dialing"
    /\ \/ /\ conn' = [conn EXCEPT ![c].pc = "run"]
          /\ to' = LruPut(to, conn[c].id, c)
       \/ /\ conn' = [conn EXCEPT ![c] = DoneConn]
          /\ UNCHANGED to
    /\ UNCHANGED <<runner, known_cache, topic_log, subscribed, queue, wire,
                   delivered, seen, nevents, storevars>>

(***************************************************************************)
(* Runtime::run (network/connections.rs)                                   *)
(***************************************************************************)
RunnerGone == runner.pc = "stopped"

\* the task of slot c once Runtime::run returned
Exiting(c) == [conn[c] EXCEPT !.pc = "exit", !.outbox = <<>>,
                              !.held = NoMsg, !.nenq = 0, !.narr = 0]

\* message_sender.send((id, message)).await from the select! branch
Push(c, m, seq) ==
    IF RunnerGone
    THEN /\ conn' = [conn EXCEPT ![c] = Exiting(c)]
         /\ UNCHANGED queue
    ELSE IF Len(queue) < MessageQueueSize
    THEN /\ conn' = [conn EXCEPT ![c].pc = "run", ![c].held = NoMsg,
                                 ![c].narr = seq]
         /\ queue' = Append(queue, [peer |-> conn[c].id, msg |-> m,
                                    conn |-> c, seq |-> seq])
    ELSE /\ conn' = [conn EXCEPT ![c].pc = "push", ![c].held = m,
                                 ![c].narr = seq]
         /\ UNCHANGED queue

\* Some((_peer, Err(error))) of inbound.next(): a frame that does not
\* decrypt, or whose plaintext MessageSlice::try_from_slice refuses (an
\* unknown tag among others); the error is logged
RecvError(c) ==
    /\ nevents < MaxEvents
    /\ nevents' = nevents + 1
    /\ UNCHANGED <<queue, conn>>

\* the branch inbound.next() of the select!
TaskRecv(c) ==
    /\ conn[c].pc = "run"
    /\ \/ \* None: the peer closed the connection
          /\ conn' = [conn EXCEPT ![c] = Exiting(c)]
          /\ UNCHANGED <<queue, nevents>>
       \/ RecvError(c)
       \/ \* Some(Ok(message))
          /\ nevents < MaxEvents
          /\ nevents' = nevents + 1
          /\ \E m \in Msgs : Push(c, m, conn[c].narr + 1)
    /\ UNCHANGED <<runner, known_cache, topic_log, subscribed, to, wire,
                   delivered, seen, storevars>>

\* message_sender.send(..).await resumes
TaskPush(c) ==
    /\ conn[c].pc = "push"
    /\ RunnerGone \/ Len(queue) < MessageQueueSize
    /\ Push(c, conn[c].held, conn[c].narr)
    /\ UNCHANGED <<runner, known_cache, topic_log, subscribed, to, wire,
                   delivered, seen, nevents, storevars>>

\* the command the task takes from its outbox
NextCommand(box) == Head(box)

\* the command is read and left in the outbox
AfterCommandKept(box) == box

\* the outbox once the command was taken
AfterCommand(box) == Tail(box)

\* what one command writes to the peer when its first j writes succeed
Written(cmd, j) == [k \in 1 .. j |-> [seq |-> cmd.seq, k |-> k]]

\* the last frame of a connection after it wrote the frames fs
LastFrame(last, fs) == IF fs = <<>> THEN last ELSE fs[Len(fs)]

\* the branch command_receiver.recv() of the select!
TaskCommand(c) ==
    /\ conn[c].pc = "run"
    /\ \/ /\ conn[c].outbox # <<>>
          /\ LET cmd == NextCommand(conn[c].outbox)
                 n == IF cmd.type = "Send" THEN 1 ELSE cmd.n
             IN  /\ conn' = [conn EXCEPT ![c].outbox = AfterCommand(@)]
                 /\ \E j \in 0 .. n :
                      wire' = [wire EXCEPT
                                  ![c] = LastFrame(@, Written(cmd, j))]
       \/ /\ OutboxClosed(c)
          /\ conn' = [conn EXCEPT ![c] = Exiting(c)]
          /\ UNCHANGED wire
    /\ UNCHANGED <<runner, known_cache, topic_log, subscribed, queue, to,
                   delivered, seen, nevents, storevars>>

\* connect() / accept() after runtime.run(): entries.pop(&id)
TaskPop(c) ==
    /\ conn[c].pc = "exit"
    /\ to' = LruPop(to, conn[c].id)
    /\ conn' = [conn EXCEPT ![c] = DoneConn]
    /\ wire' = [wire EXCEPT ![c] = NoFrame]
    /\ UNCHANGED <<runner, known_cache, topic_log, subscribed, queue,
                   delivered, seen, nevents, storevars>>

(***************************************************************************)
(* The passport store (asmtp-storage/src/passports.rs).                    *)
(*                                                                         *)
(* A block is named by its hash.  Odd hashes are genesis blocks, an even   *)
(* hash h is a block whose previous is h - 1.  A genesis block registers   *)
(* a master key; a later block sets a shared key and deregisters the       *)
(* master key of its parent.                                               *)
(*                                                                         *)
(* passports.blocks   the tree "asmtp::passport::block::", which the       *)
(*                    fields blocks and passport_id both open: a set of    *)
(*                    [key, val], key <<id>> for the head of a passport    *)
(*                    and <<id, hash>> for a later block, val the block    *)
(*                    or NoBlock for the empty value                       *)
(* passports.ids      the tree "asmtp::passport::ids::": [key, val], val   *)
(*                    the text of the passport id                          *)
(* passports.last     the last call and its answer                         *)
(***************************************************************************)
Hashes == 1 .. NBlocks
NoBlock == 0

\* block.header().previous(): NoBlock stands for Previous::None
Previous(h) == IF h % 2 = 1 THEN NoBlock ELSE h - 1

\* block.content()
Content(h) ==
    IF Previous(h) = NoBlock
    THEN <<[op |-> "register_master_key", key |-> h]>>
    ELSE <<[op |-> "set_shared_key", key |-> h],
           [op |-> "deregister_master_key", key |-> h - 1]>>

\* the chains given to put_passport: lists of different blocks
Chains ==
    UNION {{s \in [1 .. n -> Hashes] : \A i, j \in 1 .. n : s[i] = s[j] => i = j}
              : n \in 0 .. MaxChain}

\* genesis first, each later block's previous the hash of the one before
ValidChain(s) ==
    /\ s # <<>>
    /\ Previous(s[1]) = NoBlock
    /\ \A i \in 2 .. Len(s) : Previous(s[i]) = s[i - 1]

\* LightPassport::new(block), of the keynesis library: a passport starts
\* with a block that has no previous
LightPassportNew(h) == Previous(h) = NoBlock

\* PassportImporter::put for each block of bs: the block is filed under its
\* parent in pending; a block without a parent is an error
RECURSIVE ImporterPut(_, _)
ImporterPut(imp, bs) ==
    IF bs = <<>> \/ ~imp.ok THEN imp
    ELSE IF Previous(Head(bs)) = NoBlock
    THEN [ok |-> FALSE, pending |-> imp.pending]
    ELSE ImporterPut(
             [ok |-> TRUE,
              pending |-> imp.pending \cup
                             {[parent |-> Previous(Head(bs)),
                               block |-> Head(bs)]}],
             Tail(bs))

\* PassportImporter::finalize
Finalize(imp) == imp.ok /\ imp.pending = {}

\* PassportImporter::from_blocks: whether it answers a passport
FromBlocks(bs) ==
    /\ bs # <<>>
    /\ LightPassportNew(Head(bs))
    /\ Finalize(ImporterPut([ok |-> TRUE, pending |-> {}], Tail(bs)))

\* Hash::to_string, the text put_public_id stores
HashText(id) == [hex |-> id]

\* the writes of put_block(key, id, block), in order
PutBlock(key, id, h) ==
    <<[tree |-> "blocks", op |-> "insert", key |-> key, val |-> h]>> \o
    [i \in 1 .. Len(Content(h)) |->
        IF Content(h)[i].op = "deregister_master_key"
        THEN [tree |-> "ids", op |-> "remove", key |-> <<Content(h)[i].key>>,
              val |-> HashText(id)]
        ELSE [tree |-> "ids", op |-> "insert", key |-> <<Content(h)[i].key>>,
              val |-> HashText(id)]]

\* the writes of put_block_head(block): the root marker goes in the tree
\* the blocks are in, under the key of the block
PutBlockHead(h) ==
    <<[tree |-> "blocks", op |-> "insert", key |-> <<h>>, val |-> NoBlock]>>
    \o PutBlock(<<h>>, h, h)

\* the writes of put_block_tail(id, block)
PutBlockTail(id, h) == PutBlock(<<id, h>>, id, h)

\* the writes of put_passport once the chain is validated
RECURSIVE TailWrites(_, _)
TailWrites(id, bs) ==
    IF bs = <<>> THEN <<>>
    ELSE PutBlockTail(id, Head(bs)) \o TailWrites(id, Tail(bs))

PassportWrites(bs) == PutBlockHead(Head(bs)) \o TailWrites(Head(bs), Tail(bs))

\* sled::Tree::insert / remove
TreeWrite(tree, w) ==
    LET rest == {e \in tree : e.key # w.key}
    IN  IF w.op = "insert" THEN rest \cup {[key |-> w.key, val |-> w.val]}
        ELSE rest

\* the store after the writes ws
RECURSIVE ApplyWrites(_, _)
ApplyWrites(st, ws) ==
    IF ws = <<>> THEN st
    ELSE ApplyWrites(
             IF Head(ws).tree = "blocks"
             THEN [st EXCEPT !.blocks = TreeWrite(@, Head(ws))]
             ELSE [st EXCEPT !.ids = TreeWrite(@, Head(ws))],
             Tail(ws))

\* a set of hashes in the order of their bytes
RECURSIVE SortedSeq(_)
SortedSeq(S) ==
    IF S = {} THEN <<>>
    ELSE LET m == CHOOSE x \in S : \A y \in S : x <= y
         IN  <<m>> \o SortedSeq(S \ {m})

\* Passports::get_blocks: scan_prefix(id) answers the entries in the order
\* of their keys, the head first; an empty value does not decode
GetBlocksOf(st, id) ==
    LET found == {e \in st.blocks : e.key[1] = id}
        heads == {e.val : e \in {x \in found : Len(x.key) = 1}}
        tails == {e.val : e \in {x \in found : Len(x.key) = 2}}
    IN  [ok |-> NoBlock \notin heads \cup tails,
         blocks |-> SortedSeq(heads) \o SortedSeq(tails)]

\* the record of a call: its input, whether it answered Ok, whether the
\* storage engine failed, the blocks it answered
NoCall == [op |-> "none", chain |-> <<>>, id |-> NoBlock, ok |-> TRUE,
           fault |-> FALSE, out |-> <<>>]

\* Passports::put_passport(chain) when the storage engine fails at write
\* j + 1, if there is one
PutPassport(chain, j) ==
    IF ~FromBlocks(chain)
    THEN passports' = [passports EXCEPT
             !.last = [NoCall EXCEPT !.op = "put_passport", !.chain = chain,
                                     !.ok = FALSE]]
    ELSE LET ws == PassportWrites(chain)
             st == ApplyWrites(passports, SubSeq(ws, 1, j))
         IN  /\ j <= Len(ws)
             /\ passports' = [st EXCEPT
                    !.last = [NoCall EXCEPT
                                 !.op = "put_passport", !.chain = chain,
                                 !.id = Head(chain), !.ok = (j = Len(ws)),
                                 !.fault = (j < Len(ws))]]

PutPassportCall ==
    /\ \E chain \in Chains, j \in 0 .. MaxWrites : PutPassport(chain, j)
    /\ UNCHANGED <<netvars, store, sessions, extvars>>

\* Passports::get_blocks(id)
GetBlocksCall ==
    /\ \E id \in Hashes :
         LET r == GetBlocksOf(passports, id)
         IN  passports' = [passports EXCEPT
                 !.last = [NoCall EXCEPT
                              !.op = "get_blocks", !.id = id, !.ok = r.ok,
                              !.out = IF r.ok THEN r.blocks ELSE <<>>]]
    /\ UNCHANGED <<netvars, store, sessions, extvars>>

\* the bytes of a block hash given as a key of the tree of the identities.
\* The keys of that tree are the bytes of public keys (put_block gives
\* entry.key()); a hash is shorter, its bytes are the key of no entry
HashBytes(h) == <<"hash", h>>

\* Hash::try_from(bytes): the bytes of a hash convert, its text (twice as
\* long) does not
HashTryFrom(v) ==
    IF v \in {HashText(h) : h \in Hashes}
    THEN [ok |-> FALSE, id |-> NoBlock]
    ELSE [ok |-> TRUE, id |-> v]

\* Passports::get(key): looks the key up in the tree of the identities,
\* converts the value to a passport id and loads the passport of that id
PassportsGet(st, key) ==
    LET hits == {e \in st.ids : e.key = key}
    IN  IF hits = {}
        THEN [ok |-> TRUE, found |-> FALSE, id |-> NoBlock, blocks |-> <<>>]
        ELSE LET h == HashTryFrom((CHOOSE e \in hits : TRUE).val)
             IN  IF ~h.ok
                 THEN [ok |-> FALSE, found |-> FALSE, id |-> NoBlock,
                       blocks |-> <<>>]
                 ELSE LET r == GetBlocksOf(st, h.id)
                          good == r.ok /\ FromBlocks(r.blocks)
                      IN  [ok |-> good, found |-> good, id |-> h.id,
                           blocks |-> r.blocks]

\* LightPassport::update(block), of the keynesis library: the block
\* follows the last block applied
LightPassportUpdate(blocks, h) ==
    /\ blocks # <<>>
    /\ Previous(h) = blocks[Len(blocks)]

\* the answer of a call of create_or_update
Updated(st, h, id, ok, fault) ==
    [st EXCEPT !.last = [NoCall EXCEPT !.op = "create_or_update",
                                       !.chain = <<h>>, !.id = id,
                                       !.ok = ok, !.fault = fault]]

\* Passports::create_or_update(block) when the storage engine fails at
\* write j + 1, if there is one: the passport is looked up under the hash
\* of the block itself
CreateOrUpdate(h, j) ==
    LET p == PassportsGet(passports, HashBytes(h))
    IN  IF ~p.ok
        THEN passports' = Updated(passports, h, NoBlock, FALSE, FALSE)
        ELSE IF p.found
        THEN IF ~LightPassportUpdate(p.blocks, h)
             THEN passports' = Updated(passports, h, NoBlock, FALSE, FALSE)
             ELSE LET ws == PutBlockTail(p.id, h)
                  IN  /\ j <= Len(ws)
                      /\ passports' =
                             Updated(ApplyWrites(passports, SubSeq(ws, 1, j)),
                                     h, p.id, j = Len(ws), j < Len(ws))
        ELSE IF ~LightPassportNew(h)
        THEN passports' = Updated(passports, h, NoBlock, FALSE, FALSE)
        ELSE LET ws == PutBlockHead(h)
             IN  /\ j <= Len(ws)
                 /\ passports' =
                        Updated(ApplyWrites(passports, SubSeq(ws, 1, j)),
                                h, h, j = Len(ws), j < Len(ws))

CreateOrUpdateCall ==
    /\ \E h \in Hashes, j \in 0 .. MaxWrites : CreateOrUpdate(h, j)
    /\ UNCHANGED <<netvars, store, sessions, extvars>>

PassportInit == passports = [blocks |-> {}, ids |-> {}, last |-> NoCall]

(***************************************************************************)
(* The control messages of the peers (Runner::handle_message and           *)
(* asmtpd/src/storage/mod.rs) and the topic logs                            *)
(* (asmtp-storage/src/message.rs, asmtp-lib/src/message_id.rs).            *)
(*                                                                         *)
(* store.now       Time::now(), in seconds                                 *)
(* store.trees     per topic, the tree of its messages: a set of           *)
(*                 [key, val], key the MessageId <<time, hash>>            *)
(* store.sent      the calls of Connections::send_to_peer made while the   *)
(*                 last message was handled, in order: [to, msg]           *)
(* store.last      the last message handled and the peer it came from      *)
(***************************************************************************)
\* the privileged users of the configuration (Storage::users)
Users == {"p1"}

Times == 0 .. MaxTime

\* the Blake2b digest of 16 bytes MessageId::new takes of the message: the
\* digests of two bodies are in no relation to the order of the bodies
Blake2b(body) == NBodies + 1 - body

\* MessageId::timed(time): the time in big endian, the digest part zero
MessageIdTimed(time) == <<time, 0>>

\* MessageId::new(bytes) at the time now
MessageIdNew(now, body) == <<MessageIdTimed(now)[1], Blake2b(body)>>

\* the derived Ord of MessageId: the order of its bytes
IdLess(a, b) == a[1] < b[1] \/ (a[1] = b[1] /\ a[2] < b[2])

\* Message::insert(message) into the tree of the topic
MessageInsert(st, topic, body) ==
    LET id == MessageIdNew(st.now, body)
    IN  [st EXCEPT
            !.trees[topic] =
                TreeWrite(@, [op |-> "insert", key |-> id, val |-> body])]

\* sled::Tree::range: the entries in the order of their keys
RECURSIVE InKeyOrder(_)
InKeyOrder(S) ==
    IF S = {} THEN <<>>
    ELSE LET m == CHOOSE x \in S : \A y \in S \ {x} : IdLess(x.key, y.key)
         IN  <<m>> \o InKeyOrder(S \ {m})

\* range_time with the second of since left out
RangeTimeAfter(tree, since) ==
    InKeyOrder({e \in tree : e.key[1] > since})

\* Message::range_time(since..), with MessageId::time_range: from
\* timed(since) included, no upper bound
RangeTime(tree, since) ==
    InKeyOrder({e \in tree : ~IdLess(e.key, MessageIdTimed(since))})

\* Storage::messages(topic, since): nothing for a topic not subscribed
StorageMessages(st, subs, topic, since) ==
    IF topic \in subs
    THEN [some |-> TRUE, messages |-> RangeTime(st.trees[topic], since)]
    ELSE [some |-> FALSE, messages |-> <<>>]

\* the messages of asmtp-network/src/message.rs
NoMessage == [type |-> "none", id |-> NoBlock, chain |-> <<>>,
              topic |-> "none", since |-> 0, body |-> 0]
NewTopic(t, body) ==
    [NoMessage EXCEPT !.type = "topic", !.topic = t, !.body = body]
NewPutPassport(id, chain) ==
    [NoMessage EXCEPT !.type = "put_passport", !.id = id, !.chain = chain]
NewGetPassport(id) == [NoMessage EXCEPT !.type = "get_passport", !.id = id]
NewRegisterTopic(t) ==
    [NoMessage EXCEPT !.type = "register_topic", !.topic = t]
NewDeregisterTopic(t) ==
    [NoMessage EXCEPT !.type = "deregister_topic", !.topic = t]
NewQueryTopicMessages(t, since) ==
    [NoMessage EXCEPT !.type = "query_topic_messages", !.topic = t,
                      !.since = since]

\* the control messages a peer may send: about passports, about topics
PassportMessages ==
    {NewPutPassport(id, chain) : id \in Hashes, chain \in Chains}
    \cup {NewGetPassport(id) : id \in Hashes}

TopicMessages ==
    {NewRegisterTopic(t) : t \in Topics}
    \cup {NewDeregisterTopic(t) : t \in Topics}
    \cup {NewQueryTopicMessages(t, since) : t \in Topics, since \in Times}

\* the record of a handled message
Handled(st, peer, m, sent) ==
    [st EXCEPT !.last = [peer |-> peer, msg |-> m], !.sent = sent]

\* Storage::handle_put_passport(peer, id, blocks), the storage engine
\* answering every write: the chain is stored before the id it gives is
\* compared with the id of the message; the error of either is logged by
\* handle_message
HandlePutPassport(peer, m) ==
    /\ IF peer \in Users
       THEN PutPassport(m.chain, IF FromBlocks(m.chain)
                                 THEN Len(PassportWrites(m.chain)) ELSE 0)
       ELSE UNCHANGED passports
    /\ store' = Handled(store, peer, m, <<>>)
    /\ UNCHANGED subscribed

\* handle_message, GetPassport: the blocks get_blocks answers are sent to
\* the peer
HandleGetPassport(peer, m) ==
    LET r == GetBlocksOf(passports, m.id)
    IN  /\ store' = Handled(store, peer, m,
                        IF r.ok
                        THEN <<[to |-> peer,
                                msg |-> NewPutPassport(m.id, r.blocks)]>>
                        ELSE <<>>)
        /\ UNCHANGED <<passports, subscribed>>

\* put_topic without the check of the users
HandleRegisterTopicOpen(peer, m) ==
    /\ subscribed' = subscribed \cup {m.topic}
    /\ store' = Handled(store, peer, m, <<>>)
    /\ UNCHANGED passports

\* Storage::put_topic(peer, topic)
HandleRegisterTopic(peer, m) ==
    /\ subscribed' = IF peer \in Users THEN subscribed \cup {m.topic}
                     ELSE subscribed
    /\ store' = Handled(store, peer, m, <<>>)
    /\ UNCHANGED passports

\* Storage::remove_topic(peer, topic)
HandleDeregisterTopic(peer, m) ==
    /\ subscribed' = IF peer \in Users THEN subscribed \ {m.topic}
                     ELSE subscribed
    /\ store' = Handled(store, peer, m, <<>>)
    /\ UNCHANGED passports

\* handle_message, QueryTopicMessages: one Topic message to the peer for
\* each entry Storage::messages answers
HandleQueryTopicMessages(peer, m) ==
    LET r == StorageMessages(store, subscribed, m.topic, m.since)
    IN  /\ store' = Handled(store, peer, m,
                        [i \in 1 .. Len(r.messages) |->
                            [to |-> peer,
                             msg |-> NewTopic(m.topic, r.messages[i].val)]])
        /\ UNCHANGED <<passports, subscribed>>

\* Runner::handle_message(peer, message) for a control message
HandleMessage(peer, m) ==
    IF m.type = "put_passport" THEN HandlePutPassport(peer, m)
    ELSE IF m.type = "get_passport" THEN HandleGetPassport(peer, m)
    ELSE IF m.type = "register_topic" THEN HandleRegisterTopic(peer, m)
    ELSE IF m.type = "deregister_topic" THEN HandleDeregisterTopic(peer, m)
    ELSE HandleQueryTopicMessages(peer, m)

\* the variables of the relay the control messages leave alone
relayvars == <<runner, known_cache, topic_log, queue, to, conn, wire,
               delivered, seen, nevents>>

HandlePassportMessage ==
    /\ \E peer \in Peers, m \in PassportMessages : HandleMessage(peer, m)
    /\ UNCHANGED <<relayvars, sessions, extvars>>

HandleTopicMessage ==
    /\ \E peer \in Peers, m \in TopicMessages : HandleMessage(peer, m)
    /\ UNCHANGED <<relayvars, sessions, extvars>>

\* the number of messages in the topic logs
RECURSIVE Stored(_, _)
Stored(trees, ts) ==
    IF ts = {} THEN 0
    ELSE LET t == CHOOSE x \in ts : TRUE
         IN  Cardinality(trees[t]) + Stored(trees, ts \ {t})

\* State::topic_post_message(topic, bytes), the REST insert of a message
TopicPostMessage ==
    /\ \E t \in subscribed, body \in Bodies :
           /\ store' = MessageInsert(store, t, body)
           /\ Stored(store'.trees, Topics) <= MaxInserts
    /\ UNCHANGED <<netvars, passports, sessions, extvars>>

\* the clock moves on
TimePasses ==
    /\ store.now < MaxTime
    /\ store' = [store EXCEPT !.now = @ + 1]
    /\ UNCHANGED <<netvars, passports, sessions, extvars>>

StoreInit ==
    store = [now |-> 0, trees |-> [t \in Topics |-> {}], sent |-> <<>>,
             last |-> [peer |-> NoPeer, msg |-> NoMessage]]

(***************************************************************************)
(* The time-bounded requests of a topic (asmtpd/src/rest/handler/topic.rs, *)
(* State::topic_get_messages and State::topic_delete_messages).            *)
(*                                                                         *)
(* topic_reply     the last request: the topic, the bounds of the query,   *)
(*                 whether the topic was found, the tree before and after  *)
(*                 the request, and the messages of the reply, in order    *)
(***************************************************************************)
\* a bound left out of the query: Option::None, Bound::Unbounded
NoTime == 0 - 1

TimeBounds == Times \cup {NoTime}

\* MessageId::time_range of a TimeRange or a TimeConstraint, and
\* RangeBounds::contains: both bounds are Bound::Included(timed(t))
InTimeRange(key, from, upto) ==
    /\ from = NoTime \/ ~IdLess(key, MessageIdTimed(from))
    /\ upto = NoTime \/ ~IdLess(MessageIdTimed(upto), key)

\* Message::range_time(range) of a range with both bounds
RangeTimeBetween(tree, from, upto) ==
    InKeyOrder({e \in tree : InTimeRange(e.key, from, upto)})

\* Message::remove_range(range): a batch of the removals of range_time
RemoveRange(tree, from, upto) ==
    LET found == RangeTimeBetween(tree, from, upto)
    IN  tree \ {found[i] : i \in DOMAIN found}

\* the control messages that subscribe to a topic or leave it
HandleTopicRegistration ==
    /\ \E peer \in Peers, t \in Topics :
           \/ HandleMessage(peer, NewRegisterTopic(t))
           \/ HandleMessage(peer, NewDeregisterTopic(t))
    /\ UNCHANGED <<relayvars, sessions, extvars>>

NoTopicRequest ==
    [op |-> "none", topic |-> "t1", from |-> NoTime, to |-> NoTime,
     found |-> FALSE, before |-> {}, after |-> {}, out |-> <<>>]

\* GET /topic/{t}?from=A&to=B: State::topic_get_messages
TopicGetMessages ==
    /\ \E t \in Topics, from \in TimeBounds, upto \in TimeBounds :
           topic_reply' =
               IF t \in subscribed
               THEN [op |-> "get", topic |-> t, from |-> from, to |-> upto,
                     found |-> TRUE, before |-> store.trees[t],
                     after |-> store.trees[t],
                     out |-> RangeTimeBetween(store.trees[t], from, upto)]
               ELSE [NoTopicRequest EXCEPT !.op = "get", !.topic = t,
                                           !.from = from, !.to = upto]
    /\ UNCHANGED <<netvars, passports, store, sessions, http, cachevars, gossip_store,
                   calcvars>>

\* DELETE /topic/{t}?until=U: State::topic_delete_messages
TopicDeleteMessages ==
    /\ \E t \in Topics, until \in TimeBounds :
           IF t \in subscribed
           THEN /\ store' = [store EXCEPT
                      !.trees[t] = RemoveRange(@, NoTime, until)]
                /\ topic_reply' =
                      [op |-> "delete", topic |-> t, from |-> NoTime,
                       to |-> until, found |-> TRUE,
                       before |-> store.trees[t],
                       after |-> store'.trees[t], out |-> <<>>]
           ELSE /\ store' = store
                /\ topic_reply' =
                      [NoTopicRequest EXCEPT !.op = "delete", !.topic = t,
                                             !.to = until]
    /\ UNCHANGED <<netvars, passports, sessions, http, cachevars, gossip_store,
                   calcvars>>

TopicReplyInit == topic_reply = NoTopicRequest

(***************************************************************************)
(* The REST session cache (asmtpd/src/rest/sessions.rs, session.rs).       *)
(* An Instant is a number of ticks, TicksPerSecond of them in a second.    *)
(*                                                                         *)
(* sessions.now    Instant::now()                                          *)
(* sessions.cache  Sessions::sessions, the LRU cache, least recently used  *)
(*                 first: [id, started, last_used]                         *)
(* sessions.last   the last lookup: the id, whether the cache held it,     *)
(*                 the answer, the Instant of the lookup, the age of the   *)
(*                 session and the time since its last use then, and its   *)
(*                 last_used afterwards                                    *)
(***************************************************************************)
SessionIds == 1 .. NSessions

\* Duration::as_secs: the whole seconds of a duration
AsSecs(d) == d \div TicksPerSecond

NoLookup == [id |-> 0, found |-> FALSE, result |-> "none", at |-> 0,
             age |-> 0, idle |-> 0, last_used |-> 0]

\* Session::new(state): started and last_used are Instant::now()
SessionNew(id, now) == [id |-> id, started |-> now, last_used |-> now]

\* LruCache::put of Sessions::insert: replace and promote, or insert,
\* evicting the least recently used session of a full cache
SessionsPut(m, s) ==
    LET i == LruIndex(m, s.id)
    IN  IF i # 0 THEN Append(RemoveAt(m, i), s)
        ELSE IF Len(m) >= MaxActiveSessions THEN Append(Tail(m), s)
        ELSE Append(m, s)

\* the idle time checked before the lifespan
DecideIdleFirst(age, idle) ==
    IF AsSecs(idle) > MaxIdle THEN "idle_too_long"
    ELSE IF AsSecs(age) > MaxLifespan THEN "expired"
    ELSE "ok"

\* the idle time not checked
DecideLifespanOnly(age, idle) ==
    IF AsSecs(age) > MaxLifespan THEN "expired" ELSE "ok"

\* the conditions of Sessions::lookup, on the age of the session
\* (Session::lifespan) and the time since its last use
\* (Session::update_last_use)
Decide(age, idle) ==
    IF AsSecs(age) > MaxLifespan THEN "expired"
    ELSE IF AsSecs(idle) > MaxIdle THEN "idle_too_long"
    ELSE "ok"

\* a session idle for too long left in the cache
AfterLookupIdleKept(m, id, result, now) ==
    LET got == LruGet(m, id)
    IN  IF result = "expired" THEN LruPop(got, id)
        ELSE [got EXCEPT ![Len(got)].last_used = now]

\* the cache after Sessions::lookup of a session it holds: get promotes
\* the session, then it is popped, or its last_used is now
AfterLookup(m, id, result, now) ==
    LET got == LruGet(m, id)
    IN  IF result = "ok" THEN [got EXCEPT ![Len(got)].last_used = now]
        ELSE LruPop(got, id)

\* Sessions::insert(session) of a new session
SessionsInsert(id) ==
    sessions' = [sessions EXCEPT
                    !.cache = SessionsPut(@, SessionNew(id, sessions.now))]

\* the cache and the answer of Sessions::lookup(id)
LookedUp(ss, id) ==
    LET i == LruIndex(ss.cache, id)
        s == ss.cache[i]
        age == ss.now - s.started
        idle == ss.now - s.last_used
        result == Decide(age, idle)
    IN  IF i = 0
        THEN [ss EXCEPT
                 !.last = [NoLookup EXCEPT !.id = id, !.result = "not_found",
                                           !.at = ss.now]]
        ELSE [ss EXCEPT
                 !.cache = AfterLookup(@, id, result, ss.now),
                 !.last = [id |-> id, found |-> TRUE, result |-> result,
                           at |-> ss.now, age |-> age, idle |-> idle,
                           last_used |-> IF result = "expired"
                                         THEN s.last_used
                                         ELSE ss.now]]

\* Sessions::lookup(id)
SessionsLookup(id) == sessions' = LookedUp(sessions, id)

SessionsInsertCall ==
    /\ \E id \in SessionIds : SessionsInsert(id)
    /\ UNCHANGED <<netvars, passports, store, extvars>>

SessionsLookupCall ==
    /\ \E id \in SessionIds : SessionsLookup(id)
    /\ UNCHANGED <<netvars, passports, store, extvars>>

\* Sessions::clear
SessionsClear ==
    /\ sessions' = [sessions EXCEPT !.cache = <<>>]
    /\ UNCHANGED <<netvars, passports, store, extvars>>

\* the clock moves on
SessionTimePasses ==
    /\ sessions.now < MaxTicks
    /\ sessions' = [sessions EXCEPT !.now = @ + 1]
    /\ UNCHANGED <<netvars, passports, store, extvars>>

SessionInit == sessions = [now |-> 0, cache |-> <<>>, last |-> NoLookup]

(***************************************************************************)
(* The REST requests (asmtpd/src/rest/api, handler, middleware, state.rs). *)
(*                                                                         *)
(* http   the last request and its answer: the route, the session id of    *)
(*        its header, the rejections of the filters tried, in the order    *)
(*        they were tried, the HTTP status and whether the handler         *)
(*        answered Ok                                                      *)
(***************************************************************************)
\* the public key of the server, Secret::public_key
ServerKey == 1

\* a request without the header of the session id
NoSession == 0

\* Session::remote_public_identity: the key of the initiator of the
\* handshake the session comes from
RemotePublicIdentity(id) == 2 * id - 1

\* the keys a request may authenticate
Identities == {RemotePublicIdentity(id) : id \in SessionIds}

\* the master keys after the entries cs of a block
RECURSIVE ApplyContent(_, _)
ApplyContent(keys, cs) ==
    IF cs = <<>> THEN keys
    ELSE ApplyContent(
             IF Head(cs).op = "register_master_key"
             THEN keys \cup {Head(cs).key}
             ELSE IF Head(cs).op = "deregister_master_key"
             THEN keys \ {Head(cs).key}
             ELSE keys,
             Tail(cs))

\* LightPassport::active_master_keys of the passport of the blocks bs
RECURSIVE ActiveMasterKeys(_)
ActiveMasterKeys(bs) ==
    IF bs = <<>> THEN {}
    ELSE ApplyContent(ActiveMasterKeys(SubSeq(bs, 1, Len(bs) - 1)),
                      Content(bs[Len(bs)]))

\* State::server_passport: the passport of the key of the server; an
\* error of the storage is logged and answered as no passport
ServerPassport(st) ==
    LET p == PassportsGet(st, <<ServerKey>>)
    IN  [found |-> p.ok /\ p.found, blocks |-> p.blocks]

\* State::ensure_is_admin_session(session): whether it answers Ok
EnsureIsAdminSession(st, id) ==
    LET p == ServerPassport(st)
    IN  /\ p.found
        /\ RemotePublicIdentity(id) \in ActiveMasterKeys(p.blocks)

\* rejection::handle: the status of a rejection; SessionError,
\* HandleAuthError and HandlePostPassportError are looked for, any other
\* rejection is an UNHANDLED_REJECTION
RejectionStatus(err) ==
    IF err \in {"expired", "idle_too_long"} THEN 401
    ELSE IF err = "not_found" THEN 407
    ELSE IF err \in {"invalid_handshake", "rejected", "internal_error"}
    THEN 400
    ELSE IF err = "invalid_passport" THEN 400
    ELSE 500

\* the errors rejection::handle looks for, in its order
Handled401(errs) == {e \in Range(errs) : e \in {"expired", "idle_too_long",
                                                "not_found"}}

\* the answers of rejection::handle to the rejections errs of the filters
\* of a route: Rejection::find answers one error of the type looked for
Statuses(errs) ==
    IF Handled401(errs) # {}
    THEN {RejectionStatus(e) : e \in Handled401(errs)}
    ELSE {RejectionStatus(e) : e \in Range(errs)}

NoRequest == [op |-> "none", id |-> NoSession, errors |-> <<>>,
              status |-> 0, ok |-> FALSE]

\* the answer of a handler that answers Ok
Replied(op, id, status) ==
    [op |-> op, id |-> id, errors |-> <<>>, status |-> status, ok |-> TRUE]

\* the answers of a route whose filters reject with errs
Rejected(op, id, errs) ==
    {[op |-> op, id |-> id, errors |-> errs, status |-> s, ok |-> FALSE]
        : s \in Statuses(errs)}

\* middleware::auth::authenticated_session: the rejection of the filter,
\* "ok" when it extracts the session
AuthenticatedSession(ss, id) ==
    IF id = NoSession THEN "missing_header" ELSE LookedUp(ss, id).last.result

\* the session cache after a filter of the session looked the header up
AfterSession(ss, id) == IF id = NoSession THEN ss ELSE LookedUp(ss, id)

\* POST /passport: authenticated_session, then handler::post_passport
PostPassport(id, chain) ==
    LET r == AuthenticatedSession(sessions, id)
    IN  /\ sessions' = AfterSession(sessions, id)
        /\ IF r # "ok"
           THEN /\ http' \in Rejected("post_passport", id, <<r>>)
                /\ UNCHANGED passports
           ELSE IF ~EnsureIsAdminSession(passports, id)
           THEN /\ http' \in Rejected("post_passport", id, <<"privilege">>)
                /\ UNCHANGED passports
           ELSE /\ PutPassport(chain,
                               IF FromBlocks(chain)
                               THEN Len(PassportWrites(chain)) ELSE 0)
                /\ http' \in
                       IF passports'.last.ok
                       THEN {Replied("post_passport", id, 201)}
                       ELSE Rejected("post_passport", id,
                                     <<"invalid_passport">>)

\* DELETE /sessions: the routes delete_sessions and shutdown are both on
\* this path; the second is tried when the first rejects.  Each looks the
\* session up, then State::clear_all_sessions
DeleteSessions(id) ==
    LET r1 == AuthenticatedSession(sessions, id)
        s1 == AfterSession(sessions, id)
        r2 == AuthenticatedSession(s1, id)
        s2 == AfterSession(s1, id)
        e1 == IF r1 = "ok" THEN "privilege" ELSE r1
        e2 == IF r2 = "ok" THEN "privilege" ELSE r2
    IN  IF r1 = "ok" /\ EnsureIsAdminSession(passports, id)
        THEN /\ sessions' = [s1 EXCEPT !.cache = <<>>]
             /\ http' = Replied("delete_sessions", id, 200)
        ELSE IF r2 = "ok" /\ EnsureIsAdminSession(passports, id)
        THEN /\ sessions' = [s2 EXCEPT !.cache = <<>>]
             /\ http' = Replied("delete_sessions", id, 200)
        ELSE /\ sessions' = s2
             /\ http' \in Rejected("delete_sessions", id, <<e1, e2>>)

\* POST /auth: maybe_authenticated_session, then State::auth(body).  The
\* body is the first message of the handshake of the session sid, valid
\* when IK::receive verifies it
PostAuth(id, sid, valid) ==
    LET r == IF id = NoSession THEN "ok"
             ELSE AuthenticatedSession(sessions, id)
        s1 == AfterSession(sessions, id)
        p == PassportsGet(passports, <<RemotePublicIdentity(sid)>>)
    IN  IF r # "ok"
        THEN /\ sessions' = s1
             /\ http' \in Rejected("auth", sid, <<r>>)
        ELSE IF ~valid
        THEN /\ sessions' = s1
             /\ http' \in Rejected("auth", sid, <<"invalid_handshake">>)
        ELSE IF ~p.ok
        THEN /\ sessions' = s1
             /\ http' \in Rejected("auth", sid, <<"internal_error">>)
        ELSE IF ~p.found
        THEN /\ sessions' = s1
             /\ http' \in Rejected("auth", sid, <<"rejected">>)
        ELSE /\ sessions' = [s1 EXCEPT
                    !.cache = SessionsPut(@, SessionNew(sid, s1.now))]
             /\ http' = Replied("auth", sid, 200)

PostPassportRequest ==
    /\ \E id \in SessionIds \cup {NoSession}, chain \in Chains :
           PostPassport(id, chain)
    /\ UNCHANGED <<netvars, store, restkept>>

DeleteSessionsRequest ==
    /\ \E id \in SessionIds \cup {NoSession} : DeleteSessions(id)
    /\ UNCHANGED <<netvars, passports, store, restkept>>

PostAuthRequest ==
    /\ \E id \in SessionIds \cup {NoSession}, sid \in SessionIds,
          valid \in BOOLEAN : PostAuth(id, sid, valid)
    /\ UNCHANGED <<netvars, passports, store, restkept>>

\* rest::import_passport(storage, blocks): the passport of the server is
\* put in the store before the server starts
ImportPassport ==
    /\ passports.last.op = "none"
    /\ http.op = "none"
    /\ \E chain \in Chains :
           PutPassport(chain, IF FromBlocks(chain)
                              THEN Len(PassportWrites(chain)) ELSE 0)
    /\ UNCHANGED <<netvars, store, sessions, extvars>>

\* the clock moves on by a second
SecondPasses ==
    /\ sessions.now + TicksPerSecond <= MaxTicks
    /\ sessions' = [sessions EXCEPT !.now = @ + TicksPerSecond]
    /\ UNCHANGED <<netvars, passports, store, extvars>>

RestInit == http = NoRequest

(***************************************************************************)
(* The decoding of a plaintext (asmtp-network/src/message.rs,              *)
(* asmtp-lib/src/passport_export.rs).  A plaintext is its first byte, its  *)
(* length, the sizes the length prefixes of its list of blocks declare     *)
(* (PutPassport) and whether the library accepts the parts it parses       *)
(* (the gossip, the blocks).                                               *)
(*                                                                         *)
(* decoded   the plaintext and the outcome of try_from_slice: "ok",        *)
(*           "error" (Err) or "panic"                                      *)
(***************************************************************************)
MessageTypeSize == 1
HashSize == 16
TopicSize == 32
TimeSize == 4
HeadLength == 2
MaxFrameLength == 65535 - HeadLength
MessageMinSize == MessageTypeSize + HashSize
MessageMaxSize == MaxFrameLength - MessageTypeSize

\* MessageType::try_from_u8
KnownTag(t) == t \in 1 .. 7

\* the lengths and the declared sizes of the plaintexts tried
PlainLengths == 0 .. MaxPlain \cup {MessageMaxSize, MessageMaxSize + 1}
DeclaredSizes ==
    UNION {[1 .. n -> 0 .. MaxBlockSize] : n \in 0 .. MaxDeclared}

Plaintexts ==
    {p \in [tag : 0 .. 8, len : PlainLengths, sizes : DeclaredSizes,
            valid : BOOLEAN] :
        /\ p.sizes # <<>> => p.tag = 3
        /\ ~p.valid => p.tag \in {1, 3}}

\* PassportBlocksSlice::try_from_slice on the rem bytes left: each round of
\* BlockIter::move_next slices the 4 bytes of a length, then the bytes the
\* length declares (zero where the plaintext names no size); a slice out
\* of the bytes left panics.  Once the sizes named are used up every round
\* takes 4 bytes: the rounds end at no byte left, or panic at 1 to 3 left
RECURSIVE BlocksTryFromSlice(_, _, _)
BlocksTryFromSlice(rem, sizes, valid) ==
    IF rem = 0 THEN "ok"
    ELSE IF rem < 4 THEN "panic"
    ELSE IF sizes = <<>>
    THEN IF ~valid THEN "error"
         ELSE IF rem % 4 = 0 THEN "ok" ELSE "panic"
    ELSE IF rem < 4 + Head(sizes) THEN "panic"
    ELSE IF ~valid THEN "error"
    ELSE BlocksTryFromSlice(rem - 4 - Head(sizes), Tail(sizes), valid)

\* MessageSlice::try_from_slice
TryFromSlice(p) ==
    IF p.len < MessageMinSize THEN "error"
    ELSE IF ~KnownTag(p.tag) THEN "error"
    ELSE IF p.len > MessageMaxSize THEN "panic"
    ELSE IF p.tag = 1 THEN IF p.valid THEN "ok" ELSE "error"
    ELSE IF p.tag = 2 THEN IF p.len > TopicSize THEN "ok" ELSE "error"
    ELSE IF p.tag = 4
    THEN IF p.len - MessageTypeSize = HashSize THEN "ok" ELSE "error"
    ELSE IF p.tag = 3
    THEN BlocksTryFromSlice(p.len - MessageTypeSize - HashSize, p.sizes,
                            p.valid)
    ELSE IF p.len < MessageTypeSize + TopicSize THEN "panic"
    ELSE IF p.tag \in {5, 6} THEN "ok"
    ELSE IF p.len - MessageTypeSize - TopicSize = TimeSize THEN "ok"
    ELSE "panic"

NoDecoded ==
    [input |-> [tag |-> 0, len |-> 0, sizes |-> <<>>, valid |-> TRUE],
     result |-> "none"]

\* ConnectionReader::poll_next: the plaintext of a frame is decoded
Decode ==
    /\ decoded.result = "none"
    /\ decoded' = [decoded EXCEPT !.result = TryFromSlice(decoded.input)]
    /\ UNCHANGED <<netvars, passports, store, sessions, http, cachevars, gossip_store,
                   topic_reply, codec, msgid>>

(***************************************************************************)
(* The frames (asmtp-network/src/codec/encryption.rs).                     *)
(*                                                                         *)
(* codec   what is tried and its outcome: op "decode", n the length field  *)
(*         of a frame and mac whether its ciphertext authenticates; or op  *)
(*         "encode", n the length of a plaintext.  result is "ok" or the   *)
(*         error, out the length of the plaintext decoded or the length    *)
(*         field written                                                   *)
(***************************************************************************)
MinFrameLength == 16
MacLength == 16
U16Max == 65535

\* `as u16`
AsU16(n) == n % (U16Max + 1)

\* decode_head once the two bytes of the length are read
DecodeHead(n) ==
    IF n < MinFrameLength THEN "frame is too short"
    ELSE IF n > MaxFrameLength THEN "frame is too long"
    ELSE "ok"

\* Decoder::decode of a whole frame: decode_head, then decode_data, where
\* noise.receive authenticates the ciphertext
DecodeFrame(n, mac) ==
    IF DecodeHead(n) # "ok" THEN [result |-> DecodeHead(n), out |-> 0]
    ELSE IF ~mac THEN [result |-> "invalid data", out |-> 0]
    ELSE [result |-> "ok", out |-> n - MacLength]

\* the encoder takes a plaintext as long as a frame
EncodeAcceptsFrame(p) == p <= MaxFrameLength

\* the check of Encoder::encode on the length of the plaintext
EncodeAccepts(p) == p <= MaxFrameLength - MacLength

\* Encoder::encode: the length field it writes
EncodeFrame(p) ==
    IF ~EncodeAccepts(p) THEN [result |-> "frame is too long", out |-> 0]
    ELSE [result |-> "ok", out |-> AsU16(p + MacLength)]

NoCodec == [op |-> "none", n |-> 0, mac |-> TRUE, result |-> "none",
            out |-> 0]

CodecDecode ==
    /\ codec.op = "decode"
    /\ codec.result = "none"
    /\ codec' = [codec EXCEPT
                    !.result = DecodeFrame(codec.n, codec.mac).result,
                    !.out = DecodeFrame(codec.n, codec.mac).out]
    /\ UNCHANGED <<netvars, passports, store, sessions, http, cachevars, gossip_store,
                   topic_reply, decoded, msgid>>

CodecEncode ==
    /\ codec.op = "encode"
    /\ codec.result = "none"
    /\ codec' = [codec EXCEPT !.result = EncodeFrame(codec.n).result,
                              !.out = EncodeFrame(codec.n).out]
    /\ UNCHANGED <<netvars, passports, store, sessions, http, cachevars, gossip_store,
                   topic_reply, decoded, msgid>>

CodecInit == codec = NoCodec

(***************************************************************************)
(* The persisted gossips (asmtpd/src/storage/gossips.rs) and the Runner's  *)
(* refresh of them (network/mod.rs, Runner::run).                          *)
(*                                                                         *)
(* gossip_store.set          the keys of the tree "network::gossips"       *)
(* gossip_store.now          Instant::now()                                *)
(* gossip_store.last_update  Gossips::last_update                          *)
(* gossip_store.running      whether Runner::run has not returned          *)
(* gossip_store.last         the last update: the list given, the set      *)
(*                           before it, whether it answered Ok, its time   *)
(***************************************************************************)
GossipIds == 1 .. NGossipIds

NoUpdate == [op |-> "none", list |-> {}, before |-> {}, ok |-> TRUE,
             at |-> 0]

\* Gossips::needs_updated
NeedsUpdated(g) == g.now - g.last_update > MinGossipRefresh

\* Gossips::update(gossips) when the first j calls of the storage engine
\* succeed: Tree::clear, then Tree::apply_batch of the keys of the list
GossipsUpdate(g, list, j) ==
    LET set == IF j = 0 THEN g.set
               ELSE IF j = 1 THEN {}
               ELSE list
    IN  [g EXCEPT !.set = set,
                  !.last_update = IF j = 2 THEN g.now ELSE @,
                  !.last = [op |-> "update", list |-> list,
                            before |-> g.set, ok |-> (j = 2), at |-> g.now]]

\* Runner::run at the top of its loop: the view is persisted when the
\* stored gossips are due; an error of the storage makes run return
RunnerUpdateGossips ==
    /\ gossip_store.running
    /\ NeedsUpdated(gossip_store)
    /\ \E list \in SUBSET GossipIds, j \in 0 .. 2 :
          gossip_store' =
              [GossipsUpdate(gossip_store, list, j) EXCEPT
                  !.running = (j = 2)]
    /\ UNCHANGED <<netvars, passports, store, sessions, http, cachevars, topic_reply,
                   calcvars>>

\* the daemon is started again: Gossips::new opens the tree as it is
GossipsNew ==
    /\ ~gossip_store.running
    /\ gossip_store' = [gossip_store EXCEPT
                           !.running = TRUE,
                           !.last_update = gossip_store.now]
    /\ UNCHANGED <<netvars, passports, store, sessions, http, cachevars, topic_reply,
                   calcvars>>

\* the clock moves on
GossipTimePasses ==
    /\ gossip_store.now < MaxGossipTime
    /\ gossip_store' = [gossip_store EXCEPT !.now = @ + 1]
    /\ UNCHANGED <<netvars, passports, store, sessions, http, cachevars, topic_reply,
                   calcvars>>

GossipInit ==
    gossip_store = [set |-> {}, now |-> 0, last_update |-> 0,
                    running |-> TRUE, last |-> NoUpdate]

(***************************************************************************)
(* The bytes of a message id (asmtp-lib/src/message_id.rs): TimeSize bytes *)
(* of the time, then MessageIdHashSize bytes of the digest.                *)
(*                                                                         *)
(* msgid   two ids a and b and a time t, and what is computed of them:     *)
(*         op "ord" whether a < b and the times of a and b, op "timed"     *)
(*         the time of timed(t)                                            *)
(***************************************************************************)
MessageIdHashSize == 16

\* A Time is a u32, written here as its two halves of 16 bits, the high
\* half first, so that every value of the width is a value of the model:
\* <<hi, lo>> is the number hi * 65536 + lo
U32(n) == <<n \div (U16Max + 1), n % (U16Max + 1)>>

\* the order of two u32
U32Less(x, y) == x[1] < y[1] \/ (x[1] = y[1] /\ x[2] < y[2])

\* the times of the model: 0, the largest, the two of the test
\* ordering_kept, the least and the greatest value of each byte, and the
\* least time with the highest bit set
TimeSamples ==
    {U32(0), <<U16Max, U16Max>>, U32(131327), U32(262144), <<32768, 0>>}
    \cup {<<x, 0>> : x \in {1, 255, 256, 65280}}
    \cup {<<0, x>> : x \in {1, 255, 256, 65280}}

\* the digests of the model: every byte 0, 8 or 255
HashSamples == {[i \in 1 .. MessageIdHashSize |-> x] : x \in {0, 8, 255}}

\* u32::to_be_bytes in place of which the bytes are taken the least first
ToLeBytes(t) == <<t[2] % 256, t[2] \div 256, t[1] % 256, t[1] \div 256>>

\* u32::to_be_bytes
ToBeBytes(t) == <<t[1] \div 256, t[1] % 256, t[2] \div 256, t[2] % 256>>

\* u32::from_be_bytes
FromBeBytes(bs) == <<256 * bs[1] + bs[2], 256 * bs[3] + bs[4]>>

\* MessageId::timed(time)
Timed(time) == ToBeBytes(time) \o [i \in 1 .. MessageIdHashSize |-> 0]

\* MessageId::new, the digest written after the time
WithHash(id, hash) == SubSeq(id, 1, TimeSize) \o hash

\* MessageId::time
TimeOf(id) == FromBeBytes(SubSeq(id, 1, TimeSize))

\* MessageId::hash
HashOf(id) == SubSeq(id, TimeSize + 1, Len(id))

\* the derived Ord of [u8; SIZE]: the order of the bytes
BytesLess(a, b) ==
    \E i \in 1 .. Len(a) :
        /\ a[i] < b[i]
        /\ \A j \in 1 .. i - 1 : a[j] = b[j]

NoMessageId ==
    [op |-> "none", a |-> Timed(U32(0)), b |-> Timed(U32(0)), t |-> U32(0),
     less |-> FALSE, ta |-> U32(0), tb |-> U32(0), back |-> U32(0)]

\* a < b, with the times of a and b
MessageIdOrd ==
    /\ msgid.op = "none"
    /\ msgid' = [msgid EXCEPT !.op = "ord",
                              !.less = BytesLess(msgid.a, msgid.b),
                              !.ta = TimeOf(msgid.a),
                              !.tb = TimeOf(msgid.b)]
    /\ UNCHANGED <<netvars, passports, store, sessions, http, cachevars, gossip_store,
                   topic_reply, decoded, codec>>

\* timed(t).time()
MessageIdTimedTime ==
    /\ msgid.op = "none"
    /\ msgid' = [msgid EXCEPT !.op = "timed", !.back = TimeOf(Timed(msgid.t))]
    /\ UNCHANGED <<netvars, passports, store, sessions, http, cachevars, gossip_store,
                   topic_reply, decoded, codec>>

MessageIdInit == msgid = NoMessageId

(***************************************************************************)
(* The caches of the Runner on their own (network/mod.rs): the dedup       *)
(* cache MessageCache and the gossip scheduler GossipCache.                *)
(*                                                                         *)
(* gossipers.will_gossip   the IndexSet, in insertion order                *)
(* gossipers.has_gossiped  the LruCache, least recently used first:        *)
(*                         [id, at], at the Instant of the gossip          *)
(* gossipers.now           Instant::now()                                  *)
(* gossipers.returned      per identity, the Instant next_gossip_peer      *)
(*                         last answered it, NeverGossiped if it never did *)
(* gossipers.last          the last call: op, the identity given or        *)
(*                         answered, the Instant, will_gossip before it    *)
(***************************************************************************)
GossipPeers == 1 .. NGossipPeers
CacheDigests == 1 .. NDigests
NeverGossiped == 0 - 1

\* LruCache::put(id, at) of has_gossiped
HistoryPut(m, id, at) ==
    LET i == LruIndex(m, id)
        e == [id |-> id, at |-> at]
    IN  IF i # 0 THEN Append(RemoveAt(m, i), e)
        ELSE IF Len(m) >= GossipHistorySize THEN Append(Tail(m), e)
        ELSE Append(m, e)

\* the eviction loop and the insert of register_interest: IndexSet::pop
\* removes the last element
WillGossipAfter(w, id) ==
    LET t == PopWhileFull(w, GossipQueueSize)
    IN  IF id \in Range(t) THEN t ELSE Append(t, id)

NoGossipCall == [op |-> "none", id |-> 0, at |-> 0, before |-> <<>>]

\* register_interest without the test of the time elapsed
RegisterInterestAlways(g, id) ==
    [g EXCEPT
        !.has_gossiped = LruGet(@, id),
        !.will_gossip = WillGossipAfter(@, id),
        !.last = [op |-> "register_interest", id |-> id, at |-> g.now,
                  before |-> g.will_gossip]]

\* GossipCache::register_interest(id): has_gossiped.get makes the entry the
\* most recently used
RegisterInterest(g, id) ==
    LET i == LruIndex(g.has_gossiped, id)
        early == i # 0 /\ g.now - g.has_gossiped[i].at < MinElapsed
    IN  [g EXCEPT
            !.has_gossiped = LruGet(@, id),
            !.will_gossip = IF early THEN @ ELSE WillGossipAfter(@, id),
            !.last = [op |-> "register_interest", id |-> id, at |-> g.now,
                      before |-> g.will_gossip]]

\* GossipCache::next_gossip_peer when will_gossip is not empty
NextGossipPeer(g) ==
    LET id == g.will_gossip[Len(g.will_gossip)]
    IN  [g EXCEPT
            !.will_gossip = SubSeq(@, 1, Len(@) - 1),
            !.has_gossiped = HistoryPut(@, id, g.now),
            !.returned[id] = g.now,
            !.last = [op |-> "next_gossip_peer", id |-> id, at |-> g.now,
                      before |-> g.will_gossip]]

\* Runner::run at the top of its loop: the next peer to gossip with
RunnerNextGossipPeer ==
    /\ gossipers.will_gossip # <<>>
    /\ gossipers' = NextGossipPeer(gossipers)
    /\ UNCHANGED <<netvars, storevars_but_caches, importer, evict, topology>>

\* Runner::run: with nobody to gossip with, a node of the view is
\* registered
RunnerRegisterRandom ==
    /\ gossipers.will_gossip = <<>>
    /\ \E id \in GossipPeers : gossipers' = RegisterInterest(gossipers, id)
    /\ UNCHANGED <<netvars, storevars_but_caches, importer, evict, topology>>

\* Runner::handle_message of a gossip of a peer
HandleGossip ==
    /\ \E peer \in GossipPeers :
           gossipers' = RegisterInterest(gossipers, peer)
    /\ UNCHANGED <<netvars, storevars_but_caches, importer, evict, topology>>

\* the clock moves on
CacheTimePasses ==
    /\ gossipers.now < MaxCacheTime
    /\ gossipers' = [gossipers EXCEPT !.now = @ + 1]
    /\ UNCHANGED <<netvars, storevars_but_caches, importer, evict, topology>>

\* MessageCache::check of a content, on its own
MessageCacheCheck ==
    /\ \E h \in CacheDigests : known_cache' = CheckCache(known_cache, h)
    /\ UNCHANGED <<runner, topic_log, subscribed, queue, to, conn, wire,
                   delivered, seen, nevents, storevars>>

GossipersInit ==
    gossipers = [will_gossip |-> <<>>, has_gossiped |-> <<>>, now |-> 0,
                 returned |-> [id \in GossipPeers |-> NeverGossiped],
                 last |-> NoGossipCall]

(***************************************************************************)
(* PassportImporter::new / load / finalize (asmtp-storage/src/passports.rs *)
(* and asmtp-lib/src/passport_importer.rs, the same code twice).  The      *)
(* blocks are those of one valid chain: block 1 is the genesis block,      *)
(* block h + 1 has block h as its previous.                                *)
(*                                                                         *)
(* importer.current   the blocks applied to the passport, in order         *)
(* importer.pending   the buffer: [parent, block]                          *)
(* importer.added     the set added                                        *)
(* importer.ok        whether every load answered Ok                       *)
(* importer.feed      the blocks still to be given to load, in order       *)
(* importer.loaded    the blocks given to load so far                      *)
(* importer.result    "none", or what finalize answered: "ok", "error"     *)
(***************************************************************************)
ChainBlocks == 1 .. ChainLength

\* block.header().previous() in the chain: NoBlock for the genesis block
ChainPrevious(h) == h - 1

\* the orders in which blocks after the genesis block are given to load
Feeds ==
    UNION {{f \in [1 .. n -> ChainBlocks \ {1}] :
               \A i, j \in 1 .. n : f[i] = f[j] => i = j}
              : n \in 0 .. ChainLength - 1}

\* PassportImporter::new(genesis): pending and added start empty
ImporterNew(h, feed) ==
    [current |-> <<h>>, pending |-> {}, added |-> {}, ok |-> TRUE,
     feed |-> feed, loaded |-> {}, result |-> "none"]

\* LightPassport::update(block), of the keynesis library: the block
\* follows the last block applied
ChainUpdate(current, h) == ChainPrevious(h) = current[Len(current)]

\* self.current.update(block)?; self.added.insert(id)
ImporterApply(imp, h) ==
    IF ~imp.ok THEN imp
    ELSE IF ~ChainUpdate(imp.current, h) THEN [imp EXCEPT !.ok = FALSE]
    ELSE [imp EXCEPT !.current = Append(@, h), !.added = @ \cup {h}]

\* the children taken are applied one after the other
RECURSIVE ImporterApplyAll(_, _)
ImporterApplyAll(imp, kids) ==
    IF kids = <<>> THEN imp
    ELSE ImporterApplyAll(ImporterApply(imp, Head(kids)), Tail(kids))

\* the loop of load over resolved: take(id) removes the children buffered
\* under id, each is applied and joins resolved
RECURSIVE ImporterResolve(_, _)
ImporterResolve(imp, resolved) ==
    IF resolved = <<>> \/ ~imp.ok THEN imp
    ELSE LET id == Head(resolved)
             kids == SortedSeq({e.block : e \in
                                   {x \in imp.pending : x.parent = id}})
             taken == [imp EXCEPT
                          !.pending = {x \in @ : x.parent # id}]
         IN  ImporterResolve(ImporterApplyAll(taken, kids),
                             Tail(resolved) \o kids)

\* PassportImporter::load(block)
ImporterLoaded(imp, h) ==
    IF ChainPrevious(h) = NoBlock THEN [imp EXCEPT !.ok = FALSE]
    ELSE IF ChainPrevious(h) \notin imp.added
    THEN [imp EXCEPT !.pending = @ \cup {[parent |-> ChainPrevious(h),
                                          block |-> h]}]
    ELSE ImporterResolve(ImporterApply(imp, h), <<h>>)

\* the next block of the feed is given to load
ImporterLoad ==
    /\ importer.result = "none"
    /\ importer.ok
    /\ importer.feed # <<>>
    /\ importer' = [ImporterLoaded(importer, Head(importer.feed)) EXCEPT
                       !.feed = Tail(importer.feed),
                       !.loaded = @ \cup {Head(importer.feed)}]
    /\ UNCHANGED <<netvars, storevars_but_caches, gossipers, evict, topology>>

\* PassportImporter::finalize, once the feed is given
ImporterFinalize ==
    /\ importer.result = "none"
    /\ importer.ok
    /\ importer.feed = <<>>
    /\ importer' = [importer EXCEPT
                       !.result = IF importer.pending = {} THEN "ok"
                                  ELSE "error"]
    /\ UNCHANGED <<netvars, storevars_but_caches, gossipers, evict, topology>>

ImporterInit == importer = ImporterNew(1, <<>>)

(***************************************************************************)
(* The eviction loops of MessageCache::check and of                        *)
(* GossipCache::register_interest (network/mod.rs), one step at a time:    *)
(*     while collection.len() >= max { collection.pop(); }                 *)
(*     collection.insert(x)                                                *)
(* evict.op     the call: "check" or "register_interest"                   *)
(* evict.max    MessageCache::max or GossipCache::queue_size               *)
(* evict.items  the IndexSet, in insertion order                           *)
(* evict.x      the digest or the identity the call is about               *)
(* evict.early  register_interest: the peer gossiped less than             *)
(*              min_elapsed ago                                            *)
(* evict.pc     "call", "while" (the test of the loop), "pop" (its body),  *)
(*              "insert", "done" (the call returned)                       *)
(***************************************************************************)
EvictOps == {"check", "register_interest"}
EvictItems == 1 .. NEvictItems

\* the collections a cache of bound max can hold before a call: the loops
\* keep them below max, a cache of bound 0 is empty
EvictContents(max) ==
    {q \in UNION {[1 .. n -> EvictItems] : n \in 0 .. max} :
        \A i, j \in 1 .. Len(q) : i # j => q[i] # q[j]}

EvictCall(op, max, items, x, early) ==
    [op |-> op, max |-> max, items |-> items, x |-> x, early |-> early,
     pc |-> "call"]

\* IndexSet::pop: the last element is removed, None of an empty set
IndexSetPop(s) == IF s = <<>> THEN s ELSE SubSeq(s, 1, Len(s) - 1)

\* IndexSet::insert: a new element goes last, a known one stays in place
IndexSetInsert(s, x) == IF x \in Range(s) THEN s ELSE Append(s, x)

\* the call up to its loop: check hashes its argument, register_interest
\* returns when the peer gossiped too recently
EvictEnter ==
    /\ evict.pc = "call"
    /\ evict' = [evict EXCEPT
                    !.pc = IF evict.op = "register_interest" /\ evict.early
                           THEN "done" ELSE "while"]
    /\ UNCHANGED <<netvars, storevars_but_caches, gossipers, importer,
                   topology>>

\* the test of the loop: while collection.len() >= max
EvictWhile ==
    /\ evict.pc = "while"
    /\ evict' = [evict EXCEPT
                    !.pc = IF Len(evict.items) >= evict.max
                           THEN "pop" ELSE "insert"]
    /\ UNCHANGED <<netvars, storevars_but_caches, gossipers, importer,
                   topology>>

\* the body of the loop: collection.pop();
EvictPop ==
    /\ evict.pc = "pop"
    /\ evict' = [evict EXCEPT !.items = IndexSetPop(@), !.pc = "while"]
    /\ UNCHANGED <<netvars, storevars_but_caches, gossipers, importer,
                   topology>>

\* collection.insert(x) and the return
EvictInsert ==
    /\ evict.pc = "insert"
    /\ evict' = [evict EXCEPT !.items = IndexSetInsert(@, evict.x),
                              !.pc = "done"]
    /\ UNCHANGED <<netvars, storevars_but_caches, gossipers, importer,
                   topology>>

EvictInit == evict = EvictCall("check", 1, <<>>, 1, FALSE)

(***************************************************************************)
(* The subscriptions of the topology (network/topology.rs) next to the     *)
(* persisted ones (subscribed).                                            *)
(* topology.subs   the topics the poldercast topology is subscribed to,    *)
(*                 advertises in its profile and selects views for         *)
(***************************************************************************)
\* Inner::subscriptions(add, remove): subscribe_topic for the topics of
\* add, then unsubscribe_topic for those of remove
TopologySubscriptions(tp, add, remove) ==
    [tp EXCEPT !.subs = (@ \cup add) \ remove]

\* Network::new: a new topology is given the subscriptions of the storage
NetworkNew(subs) == TopologySubscriptions([subs |-> {}], subs, {})

\* handle_command, Command::Subscriptions { add, remove }
RunnerCommandSubscriptions ==
    /\ \E add \in SUBSET Topics, remove \in SUBSET Topics :
           topology' = TopologySubscriptions(topology, add, remove)
    /\ UNCHANGED <<netvars, storevars_but_caches, gossipers, importer,
                   evict>>

\* the daemon is stopped and started again
NetworkRestart ==
    /\ topology' = NetworkNew(subscribed)
    /\ UNCHANGED <<netvars, storevars_but_caches, gossipers, importer,
                   evict>>

TopologyInit == topology = NetworkNew(subscribed)

(***************************************************************************)
(* The broker                                                              *)
(***************************************************************************)
NetInit ==
    /\ runner = IdleRunner("top")
    /\ known_cache = <<>>
    /\ topic_log = [t \in Topics |-> <<>>]
    /\ subscribed = {"t1"}
    /\ queue = <<>>
    /\ to = <<>>
    /\ conn = [c \in Conns |-> FreeConn]
    /\ wire = [c \in Conns |-> NoFrame]
    /\ delivered = [c \in Conns |-> 0]
    /\ seen = [m \in Msgs |-> {0}]
    /\ nevents = 0


\* the state every specification starts from but for the inputs it tries
Init ==
    /\ NetInit
    /\ PassportInit
    /\ StoreInit
    /\ SessionInit
    /\ RestInit
    /\ decoded = NoDecoded
    /\ CodecInit
    /\ MessageIdInit
    /\ GossipInit
    /\ TopicReplyInit
    /\ GossipersInit
    /\ ImporterInit
    /\ EvictInit
    /\ TopologyInit

Next ==
    \/ RunnerTop
    \/ RunnerBeat
    \/ RunnerReceive
    \/ RunnerSend
    \/ RunnerSendResume
    \/ RunnerShutdown
    \/ RunnerAccept
    \/ \E c \in Conns : AcceptCheck(c)
    \/ \E c \in Conns : AcceptRegister(c)
    \/ \E c \in Conns : DialComplete(c)
    \/ \E c \in Conns : TaskRecv(c)
    \/ \E c \in Conns : TaskPush(c)
    \/ \E c \in Conns : TaskCommand(c)
    \/ \E c \in Conns : TaskPop(c)

Spec == Init /\ [][Next]_vars

\* the calls of the passport store
PassportNext ==
    \/ PutPassportCall
    \/ GetBlocksCall
    \/ CreateOrUpdateCall

PassportSpec == Init /\ [][PassportNext]_vars

\* the control messages of the peers
DispatchNext ==
    \/ HandlePassportMessage
    \/ HandleTopicMessage

DispatchSpec == Init /\ [][DispatchNext]_vars

\* the topic logs: the messages about topics, the REST insert of a message,
\* the clock
TopicNext ==
    \/ HandleTopicMessage
    \/ TopicPostMessage
    \/ TimePasses

TopicSpec == Init /\ [][TopicNext]_vars

\* the requests of a topic over REST: the topics come from the control
\* messages, the messages from the REST insert
TopicRestNext ==
    \/ HandleTopicRegistration
    \/ TopicPostMessage
    \/ TimePasses
    \/ TopicGetMessages
    \/ TopicDeleteMessages

TopicRestSpec == Init /\ [][TopicRestNext]_vars

\* the calls of the session cache and the clock
SessionNext ==
    \/ SessionsInsertCall
    \/ SessionsLookupCall
    \/ SessionsClear
    \/ SessionTimePasses

SessionSpec == Init /\ [][SessionNext]_vars

\* the REST requests about sessions and passports, the sessions the cache
\* is given, the passport the server imports, the clock
RestNext ==
    \/ PostPassportRequest
    \/ DeleteSessionsRequest
    \/ PostAuthRequest
    \/ ImportPassport
    \/ SessionsInsertCall
    \/ SecondPasses

RestSpec == Init /\ [][RestNext]_vars

\* the state but for the variable x of the inputs a specification tries
InitBut(x) ==
    /\ NetInit
    /\ PassportInit
    /\ StoreInit
    /\ SessionInit
    /\ RestInit
    /\ IF x = "decoded" THEN TRUE ELSE decoded = NoDecoded
    /\ IF x = "codec" THEN TRUE ELSE CodecInit
    /\ IF x = "msgid" THEN TRUE ELSE MessageIdInit
    /\ GossipInit
    /\ TopicReplyInit
    /\ GossipersInit
    /\ IF x = "importer" THEN TRUE ELSE ImporterInit
    /\ IF x = "evict" THEN TRUE ELSE EvictInit
    /\ TopologyInit

\* the decoding of every plaintext tried
DecodeInit ==
    /\ InitBut("decoded")
    /\ decoded \in {[input |-> p, result |-> "none"] : p \in Plaintexts}

DecodeNext == Decode

DecodeSpec == DecodeInit /\ [][DecodeNext]_vars

\* the codec on every length tried
CodecSpecInit ==
    /\ InitBut("codec")
    /\ \/ \E n \in 0 .. U16Max, mac \in BOOLEAN :
              codec = [NoCodec EXCEPT !.op = "decode", !.n = n, !.mac = mac]
       \/ \E p \in 0 .. MaxPlainLength :
              codec = [NoCodec EXCEPT !.op = "encode", !.n = p]

CodecNext ==
    \/ CodecDecode
    \/ CodecEncode

CodecSpec == CodecSpecInit /\ [][CodecNext]_vars

\* the refresh of the persisted gossips, the restart of the daemon, the
\* clock
\* the caches of the Runner on their own
CacheNext ==
    \/ RunnerNextGossipPeer
    \/ RunnerRegisterRandom
    \/ HandleGossip
    \/ CacheTimePasses
    \/ MessageCacheCheck

CacheSpec == Init /\ [][CacheNext]_vars

\* the importer given the blocks of a chain in some order
\* one call of a cache that evicts, for every bound and every content
EvictSpecInit ==
    /\ InitBut("evict")
    /\ \E op \in EvictOps, max \in 0 .. MaxEvictBound, x \in EvictItems,
          early \in BOOLEAN :
         \E items \in EvictContents(max) :
            evict = EvictCall(op, max, items, x, early)

EvictNext == EvictEnter \/ EvictWhile \/ EvictPop \/ EvictInsert

EvictSpec == EvictSpecInit /\ [][EvictNext]_vars

\* the call is straight-line code of a task that runs: its next step is
\* taken
EvictFairSpec == EvictSpec /\ WF_vars(EvictNext)

\* the topics of the storage and of the topology: the control messages of
\* the peers, the command of the Network handle and a restart
SubscriptionNext ==
    \/ HandleTopicMessage
    \/ RunnerCommandSubscriptions
    \/ NetworkRestart

SubscriptionSpec == Init /\ [][SubscriptionNext]_vars

ImporterSpecInit ==
    /\ InitBut("importer")
    /\ \E feed \in Feeds : importer = ImporterNew(1, feed)

ImporterNext ==
    \/ ImporterLoad
    \/ ImporterFinalize

ImporterSpec == ImporterSpecInit /\ [][ImporterNext]_vars

MessageIdSpecInit ==
    /\ InitBut("msgid")
    /\ \E ta \in TimeSamples, tb \in TimeSamples,
          ha \in HashSamples, hb \in HashSamples :
           msgid = [NoMessageId EXCEPT !.a = WithHash(Timed(ta), ha),
                                       !.b = WithHash(Timed(tb), hb),
                                       !.t = ta]

MessageIdNext ==
    \/ MessageIdOrd
    \/ MessageIdTimedTime

MessageIdSpec == MessageIdSpecInit /\ [][MessageIdNext]_vars

GossipNext ==
    \/ RunnerUpdateGossips
    \/ GossipsNew
    \/ GossipTimePasses

GossipSpec == Init /\ [][GossipNext]_vars

(***************************************************************************)
(* Properties of the relay                                                 *)
(***************************************************************************)
\* the frames of one list are all different
NoDuplicates(s) == \A i, j \in 1 .. Len(s) : s[i] = s[j] => i = j

\* while a Topic message of peer P is dispatched: P is not in the view, the
\* peers served so far are the served part of the view
DispatchWithinView ==
    runner.pc = "send_all" =>
        /\ runner.from \in Peers
        /\ runner.from \notin Range(runner.full)
        /\ NoDuplicates(runner.full)
        /\ \E i \in 1 .. Len(runner.full) :
             /\ runner.view = SubSeq(runner.full, i, Len(runner.full))
             /\ runner.sent \subseteq Range(SubSeq(runner.full, 1, i - 1))

\* a step of the dispatch puts the Send in the outbox of the next peer of
\* the view, which is not the outbox of a connection of P
DispatchStep ==
    \A c \in Conns :
        (runner.pc = "send_all" /\ conn'[c].nenq > conn[c].nenq) =>
            /\ conn'[c].id = Head(runner.view)
            /\ conn'[c].id # runner.from
            /\ conn'[c].outbox[Len(conn'[c].outbox)].msg = runner.msg

ReceiveStep == runner.pc = "select" /\ queue # <<>> /\ delivered' # delivered

\* the message at the head of the queue was handled and stored before, and
\* fewer than known_message_cache_size other bodies were handled since
WithinCacheWindow(m) ==
    /\ seen[m] # {0}
    /\ Cardinality(seen[m]) < KnownMessageCacheSize
    /\ m.body \in Range(topic_log[m.topic])

\* C2: a Topic(t, body) handled before, arriving again while fewer than
\* known_message_cache_size other distinct bodies were handled in between, is
\* neither inserted in the topic log nor forwarded.
C2_DedupIdempotent ==
    [][(ReceiveStep /\ WithinCacheWindow(Head(queue).msg)) =>
           (topic_log' = topic_log /\ runner'.pc # "send_all")]_vars

\* the Runner is suspended in Sender::send on the outbox of task c, which
\* holds its full capacity of commands
WaitsForRoom(c) ==
    runner.chan = c /\ Len(conn[c].outbox) >= OutboxCapacity

\* C3: a send to a peer whose outbox holds its full capacity of commands
\* fails at once; the Runner is never suspended waiting for room in an
\* outbox.
C3_SendNeverWaits == \A c \in Conns : ~WaitsForRoom(c)

(***************************************************************************)
(* Order within one connection                                             *)
(***************************************************************************)
\* the inbound messages of task c the Runner has still to receive
Pending(c) == SelectSeq(queue, LAMBDA e : e.conn = c)

\* the commands in an outbox are numbered as they were enqueued; the
\* messages of one task wait in the inbound queue in the order they
\* arrived, none missing, none twice
QueuesInOrder ==
    \A c \in Conns :
        /\ \A i \in 1 .. Len(conn[c].outbox) :
             conn[c].outbox[i].seq = conn[c].nenq - Len(conn[c].outbox) + i
        /\ Running(c) => wire[c].seq <= conn[c].nenq - Len(conn[c].outbox)
        /\ ~RunnerGone =>
             /\ \A i \in 1 .. Len(Pending(c)) :
                  Pending(c)[i].seq = delivered[c] + i
             /\ Running(c) =>
                  conn[c].narr = delivered[c] + Len(Pending(c))
                                 + (IF conn[c].pc = "push" THEN 1 ELSE 0)

\* a step writes the frames of the oldest command of the outbox, once, and
\* the Runner receives the oldest message of the inbound queue
StepsInOrder ==
    \A c \in Conns :
        /\ (wire'[c] # wire[c] /\ wire'[c] # NoFrame) =>
             /\ conn[c].outbox # <<>>
             /\ wire'[c].seq = Head(conn[c].outbox).seq
             /\ wire'[c].seq > wire[c].seq
             /\ conn'[c].outbox = Tail(conn[c].outbox)
        /\ delivered'[c] # delivered[c] =>
             /\ Head(queue).conn = c
             /\ delivered'[c] = delivered[c] + 1

RegisterStep(c) == conn[c].pc = "accepted" /\ conn'[c].pc = "run"

\* C5: an inbound connection of identity X is never registered in the map
\* while an entry for X exists, whatever the interleaving of the inbound
\* handshakes and the outbound dials.
C5_NoDoubleRegistration ==
    [][\A c \in Conns :
          RegisterStep(c) => ~LruContains(to, conn[c].id)]_vars

\* the responder handshake of task c succeeded in full
HandshakeSucceeded(c) ==
    /\ conn[c].ver \in VersionMin .. VersionMax
    /\ conn[c].noise
    /\ conn[c].pred

\* an accepted connection that is in the map, runs, wrote its response or
\* has messages on their way to the Runner went through the handshake
AcceptedAfterHandshake ==
    \A c \in Conns :
        (/\ conn[c].kind = "accept"
         /\ \/ InMap(to, c)
            \/ conn[c].pc \in {"accepted", "run", "push"}
            \/ conn[c].responded
            \/ conn[c].narr > 0)
        => HandshakeSucceeded(c)

\* a handshake that stops at the version, the Noise message or the
\* predicate writes no response and leaves the map as it is; the entry of an
\* inbound connection is put once its response is written
RejectedLeavesNothing ==
    \A c \in Conns :
        /\ (conn[c].pc = "handshake" /\ conn'[c].pc # "handshake") =>
             (to' = to /\ ~conn'[c].responded)
        /\ (conn'[c].kind = "accept" /\ ~InMap(to, c) /\ InMap(to', c)) =>
             (conn[c].pc = "accepted" /\ conn'[c].responded)

\* C6: an inbound connection is put in the map, and its messages reach the
\* Runner, only after the responder handshake succeeded: version within
\* [MIN, MAX], Noise message verified, predicate true; a handshake that
\* fails writes no response and registers nothing.
C6_RegisteredAfterHandshake ==
    []AcceptedAfterHandshake /\ [][RejectedLeavesNothing]_vars

\* C6 witness: an accepted connection is in the map and a message of its
\* peer reached the Runner
C6_Witness ==
    \E c \in Conns :
        /\ conn[c].kind = "accept" /\ InMap(to, c) /\ Running(c)
        /\ delivered[c] >= 1

\* inserting evicts the entry of task c: the entry leaves the map, its
\* identity with it, while another entry comes in
Evicts(c) ==
    /\ Len(to') >= Len(to)
    /\ \E i \in 1 .. Len(to) :
         to[i].ch = c /\ ~LruContains(to', to[i].id)

\* task c is at its select! and, of the senders of its outbox, one is still
\* owned by the map or by a task
StaysOpen(c) ==
    Running(c) /\ (InMap(to, c) \/ DialHoldsSender(c) \/ AcceptHoldsSender(c))

\* C7: the map never holds more than max_opened_connections entries, and
\* the task of an evicted identity ends, its outbox closed, instead of
\* staying open without an entry.
C7_CappedAndEvictedEnds ==
    /\ [](Len(to) <= MaxOpenedConnections)
    /\ [][\A c \in Conns : Evicts(c) => ~StaysOpen(c)']_vars

\* C8: once the Runner has left its loop, every connection task still at
\* its select! has lost the senders of its outbox, so that it ends without
\* further traffic from its peer.
C8_ShutdownEndsTasks ==
    RunnerGone => \A c \in Conns : Running(c) => ~SenderAlive(c)

(***************************************************************************)
(* The passport store                                                      *)
(***************************************************************************)
\* C9: put_passport of a valid complete chain of n >= 1 blocks, the storage
\* engine answering every write, answers Ok with the hash of the genesis
\* block as passport id, and get_blocks(id) then answers exactly the
\* blocks of the chain, in chain order.
C9_PutThenGet ==
    LET l == passports.last
    IN  (l.op = "put_passport" /\ ValidChain(l.chain) /\ ~l.fault) =>
            /\ l.ok
            /\ l.id = l.chain[1]
            /\ GetBlocksOf(passports, l.id) =
                   [ok |-> TRUE, blocks |-> l.chain]

\* C10: a put_passport that answers an error leaves the tree of the blocks
\* and roots and the tree of the identities as they were before the call.
C10_AllOrNothing ==
    [][(passports'.last.op = "put_passport" /\ ~passports'.last.ok) =>
           (/\ passports'.blocks = passports.blocks
            /\ passports'.ids = passports.ids)]_vars

\* C11: create_or_update of a block whose previous is the last block of
\* the chain stored under the passport id P, the storage engine answering
\* every write, answers Ok with P, and get_blocks(P) is then the former
\* chain followed by the block.
C11_AppendExtends ==
    [][\A P \in Hashes :
          LET before == GetBlocksOf(passports, P)
              l == passports'.last
          IN  (/\ l.op = "create_or_update"
               /\ ~l.fault
               /\ before.ok
               /\ ValidChain(before.blocks)
               /\ before.blocks[1] = P
               /\ Previous(l.chain[1]) = before.blocks[Len(before.blocks)])
              => /\ l.ok
                 /\ l.id = P
                 /\ GetBlocksOf(passports', P) =
                        [ok |-> TRUE, blocks |-> before.blocks \o l.chain]]_vars

(***************************************************************************)
(* The control messages                                                    *)
(***************************************************************************)
\* the trees of the passport store are as they were
PassportsKept ==
    /\ passports'.blocks = passports.blocks
    /\ passports'.ids = passports.ids

\* C13: a PutPassport(id, chain) whose id is not the hash of the first
\* block of the chain leaves the passport store (blocks, roots, key index)
\* as it was, also when a privileged peer sends it with a valid chain.
C13_MismatchedIdRejected ==
    [][LET peer == store'.last.peer
           m == store'.last.msg
       IN  (/\ m.type = "put_passport"
            /\ (m.chain = <<>> \/ m.id # m.chain[1])
            /\ HandleMessage(peer, m))
           => PassportsKept]_vars

\* C14: PutPassport, RegisterTopic and DeregisterTopic from a peer that is
\* not a privileged user change neither the passport store nor the
\* subscription set, and no message is sent to any peer.
C14_UnprivilegedIgnored ==
    [][LET peer == store'.last.peer
           m == store'.last.msg
       IN  (/\ peer \in Peers \ Users
            /\ m.type \in {"put_passport", "register_topic",
                           "deregister_topic"}
            /\ HandleMessage(peer, m))
           => /\ PassportsKept
              /\ subscribed' = subscribed
              /\ store'.sent = <<>>]_vars

\* a peer that is not a privileged user has sent a valid passport and a
\* registration of a topic not subscribed; neither is there
C14_Witness ==
    /\ store.last.peer \in Peers \ Users
    /\ \/ /\ store.last.msg.type = "put_passport"
          /\ FromBlocks(store.last.msg.chain)
          /\ store.last.msg.id = store.last.msg.chain[1]
          /\ GetBlocksOf(passports, store.last.msg.id).blocks = <<>>
       \/ /\ store.last.msg.type = "register_topic"
          /\ store.last.msg.topic \notin subscribed

\* C15: a GetPassport(id) is answered with a PutPassport(id, chain) only
\* when a chain is stored under id, and only to the peer that asked; for
\* an id with no stored chain nothing is sent to any peer.
C15_ReplyOnlyWhenStored ==
    LET l == store.last
    IN  l.msg.type = "get_passport" =>
            /\ \A i \in DOMAIN store.sent : store.sent[i].to = l.peer
            /\ GetBlocksOf(passports, l.msg.id).blocks = <<>> =>
                   store.sent = <<>>

(***************************************************************************)
(* The topic logs                                                          *)
(***************************************************************************)
\* the sends are one Topic message of t to the peer for each entry of
\* want, in the increasing order of the message ids
AnswersInOrder(sent, peer, t, want) ==
    /\ Len(sent) = Cardinality(want)
    /\ \E f \in [1 .. Len(sent) -> want] :
           /\ \A i, j \in 1 .. Len(sent) :
                  i < j => IdLess(f[i].key, f[j].key)
           /\ \A i \in 1 .. Len(sent) :
                  sent[i] = [to |-> peer, msg |-> NewTopic(t, f[i].val)]

C17_IdsFollowInsertOrder ==
    [][\A t \in Topics, body \in Bodies :
          (store' = MessageInsert(store, t, body)) =>
              \A e \in store.trees[t] :
                  e.val # body =>
                      IdLess(e.key, MessageIdNew(store.now, body))]_vars

(***************************************************************************)
(* The session cache                                                       *)
(***************************************************************************)
\* C18, as claimed: a lookup of a stored session answers Expired if its
\* age exceeds max_lifespan, otherwise IdleTooLong if the time since its
\* last use exceeds max_idle, otherwise it succeeds and last_used is now.
C18_LookupOrder ==
    LET l == sessions.last
    IN  l.found =>
            /\ l.result =
                   (IF l.age > MaxLifespan * TicksPerSecond THEN "expired"
                    ELSE IF l.idle > MaxIdle * TicksPerSecond
                    THEN "idle_too_long"
                    ELSE "ok")
            /\ l.result = "ok" => l.last_used = l.at

\* C18, amended: a lookup of a stored session answers Expired if the whole
\* seconds of its age exceed max_lifespan, otherwise IdleTooLong if the
\* whole seconds of the time since its last use exceed max_idle, otherwise
\* it succeeds and last_used is now.  Hence a session over both limits is
\* Expired, and a session within max_lifespan that was last used at most
\* max_idle ago is valid.
C18_LookupOrderInSeconds ==
    LET l == sessions.last
    IN  l.found =>
            /\ l.result =
                   (IF AsSecs(l.age) > MaxLifespan THEN "expired"
                    ELSE IF AsSecs(l.idle) > MaxIdle THEN "idle_too_long"
                    ELSE "ok")
            /\ l.result = "ok" => l.last_used = l.at
            /\ (/\ l.age <= MaxLifespan * TicksPerSecond
                /\ l.idle <= MaxIdle * TicksPerSecond) => l.result = "ok"

\* a session over both limits was looked up
C18_Witness ==
    LET l == sessions.last
    IN  /\ l.found
        /\ l.result = "expired"
        /\ AsSecs(l.idle) > MaxIdle

\* C19, as claimed: at a successful lookup last_used <= now, the age of
\* the session is at most max_lifespan and the time since its previous
\* use at most max_idle.
C19_ValidWithinLimits ==
    LET l == sessions.last
    IN  l.result = "ok" =>
            /\ l.last_used <= l.at
            /\ l.age <= MaxLifespan * TicksPerSecond
            /\ l.idle <= MaxIdle * TicksPerSecond

\* C19, amended: at a successful lookup last_used <= now, the whole
\* seconds of the age of the session are at most max_lifespan and the
\* whole seconds of the time since its previous use at most max_idle.
C19_ValidWithinWholeSeconds ==
    LET l == sessions.last
    IN  l.result = "ok" =>
            /\ l.last_used <= l.at
            /\ l.at <= sessions.now
            /\ AsSecs(l.age) <= MaxLifespan
            /\ AsSecs(l.idle) <= MaxIdle

\* a lookup succeeded for a session max_lifespan old and idle for max_idle
C19_Witness ==
    LET l == sessions.last
    IN  /\ l.result = "ok"
        /\ AsSecs(l.age) = MaxLifespan
        /\ AsSecs(l.idle) = MaxIdle

\* C20: when a lookup answers Expired or IdleTooLong the session is no
\* longer in the cache, and every later lookup of its id answers NotFound
\* until a session with that id is inserted: the lookup of an id the
\* cache does not hold answers NotFound, and only an insert puts an id in
\* the cache.
C20_EvictedStaysOut ==
    [][\A id \in SessionIds :
          /\ (/\ SessionsLookup(id)
              /\ sessions'.last.result \in {"expired", "idle_too_long"})
             => ~LruContains(sessions'.cache, id)
          /\ (SessionsLookup(id) /\ ~LruContains(sessions.cache, id))
             => /\ sessions'.last.result = "not_found"
                /\ ~LruContains(sessions'.cache, id)
          /\ (~LruContains(sessions.cache, id)
              /\ LruContains(sessions'.cache, id)) => SessionsInsert(id)]_vars

\* a session was evicted by a lookup, and a later lookup did not find it
C20_Witness ==
    /\ sessions.last.result \in {"expired", "idle_too_long"}
    /\ ~LruContains(sessions.cache, sessions.last.id)

(***************************************************************************)
(* Properties of the REST requests                                         *)
(***************************************************************************)
\* the active master keys of the passports the store files under the key
\* of the server
ServerAdmins(st) ==
    UNION {ActiveMasterKeys(GetBlocksOf(st, e.val.hex).blocks)
              : e \in {x \in st.ids : x.key = <<ServerKey>>}}

\* the ids of the sessions of a cache
CachedIds(m) == {m[i].id : i \in 1 .. Len(m)}

\* C21: POST /passport and DELETE /sessions of a session the lookup
\* accepts whose identity is not an active master key of the passport of
\* the server leave the passport store and the sessions of the cache as
\* they were; DELETE /sessions of a session whose identity is one leaves
\* the cache empty.
C21_AdminOnly ==
    [][LET id == http'.id
           live == AuthenticatedSession(sessions, id) = "ok"
           admin == RemotePublicIdentity(id) \in ServerAdmins(passports)
           kept == /\ passports'.blocks = passports.blocks
                   /\ passports'.ids = passports.ids
                   /\ CachedIds(sessions'.cache) = CachedIds(sessions.cache)
       IN  /\ (/\ http'.op = "post_passport"
               /\ live
               /\ ~admin
               /\ \E chain \in Chains : PostPassport(id, chain)) => kept
           /\ (/\ http'.op = "delete_sessions"
               /\ live
               /\ ~admin
               /\ DeleteSessions(id)
               /\ UNCHANGED passports) => kept
           /\ (/\ http'.op = "delete_sessions"
               /\ live
               /\ admin
               /\ DeleteSessions(id)
               /\ UNCHANGED passports) => sessions'.cache = <<>>]_vars

\* C22: a POST /auth without a session header whose body verifies, from an
\* initiator whose key the store files under a passport, is answered Ok
\* and a session of the handshake is then in the cache; a body that fails
\* the handshake registers no session.
C22_AuthRegisters ==
    [][LET sid == http'.id
           known == \E e \in passports.ids :
                       e.key = <<RemotePublicIdentity(sid)>>
       IN  /\ (/\ http'.op = "auth"
               /\ known
               /\ PostAuth(NoSession, sid, TRUE)
               /\ UNCHANGED passports)
              => /\ http'.ok
                 /\ LruContains(sessions'.cache, sid)
           /\ (/\ http'.op = "auth"
               /\ PostAuth(NoSession, sid, FALSE)
               /\ UNCHANGED passports)
              => CachedIds(sessions'.cache) \subseteq CachedIds(sessions.cache)
      ]_vars

\* C23: a request refused with a SessionError (the session not found,
\* expired or idle for too long) or with a PrivilegeError (the caller is
\* not an admin) is answered with the status 401 or 407.
C23_RefusedStatus ==
    (/\ ~http.ok
     /\ \E e \in Range(http.errors) :
           e \in {"not_found", "expired", "idle_too_long", "privilege"})
    => http.status \in {401, 407}

(***************************************************************************)
(* Properties of the decoding of the messages                              *)
(***************************************************************************)
\* C24: when a connection task receives a frame whose plaintext is not a
\* message (an unknown tag), the task stops: it leaves Runtime::run.
C24_UnknownTagFails ==
    [][\A c \in Conns :
          (/\ conn[c].pc = "run"
           /\ RecvError(c)
           /\ UNCHANGED <<runner, known_cache, topic_log, subscribed, to,
                          wire, delivered, seen, storevars>>)
          => ~Running(c)']_vars

\* C25: MessageSlice::try_from_slice answers a message or an error for
\* every plaintext; it never panics.
C25_DecodeNeverPanics == decoded.result # "panic"

(***************************************************************************)
(* Properties of the frames                                                *)
(***************************************************************************)
\* C26: the decoder accepts an authentic frame whose length field is n iff
\* 16 <= n <= 65533 (16 gives an empty plaintext, 15 is "frame is too
\* short", 65534 is "frame is too long"); the encoder accepts a plaintext
\* of p bytes iff p <= 65517, and the length it then writes is p + 16, not
\* wrapped, a length the decoder accepts.
C26_FrameLengths ==
    /\ (codec.op = "decode" /\ codec.result # "none" /\ codec.mac) =>
          /\ codec.result = "ok" <=> (16 <= codec.n /\ codec.n <= 65533)
          /\ codec.result = "ok" => codec.out = codec.n - 16
          /\ codec.n = 15 => codec.result = "frame is too short"
          /\ codec.n = 65534 => codec.result = "frame is too long"
    /\ (codec.op = "encode" /\ codec.result # "none") =>
          /\ codec.result = "ok" <=> codec.n <= 65517
          /\ codec.result = "ok" =>
                /\ codec.out = codec.n + 16
                /\ DecodeHead(codec.out) = "ok"

\* the longest plaintext was encoded
C26_Witness ==
    /\ codec.op = "encode"
    /\ codec.n = 65517
    /\ codec.result = "ok"

(***************************************************************************)
(* Properties of the persisted gossips                                     *)
(***************************************************************************)
\* C27: after Gossips::update(list) returned, with Ok or with an error, the
\* persisted set is the set before the call or the list; and after an
\* update that answered Ok the gossips are not due until more than the
\* refresh rate has elapsed.
C27_UpdateAtomic ==
    LET l == gossip_store.last
    IN  l.op = "update" =>
           /\ gossip_store.set \in {l.before, l.list}
           /\ (l.ok /\ NeedsUpdated(gossip_store))
              => gossip_store.now - l.at > MinGossipRefresh

(***************************************************************************)
(* Properties of the time-bounded requests of a topic                      *)
(***************************************************************************)
\* the time of a stored message lies within the bounds of a query
WithinTimes(e, from, upto) ==
    /\ from = NoTime \/ from <= e.key[1]
    /\ upto = NoTime \/ e.key[1] <= upto

\* C28: GET /topic/{t}?from=A&to=B answers exactly the stored messages with
\* A <= time <= B, and DELETE /topic/{t}?until=U removes exactly the stored
\* messages with time <= U and leaves the others unchanged.
C28_InclusiveBounds ==
    LET r == topic_reply
    IN  r.found =>
           /\ r.op = "get" =>
                 /\ {r.out[i] : i \in DOMAIN r.out}
                        = {e \in r.before : WithinTimes(e, r.from, r.to)}
                 /\ Len(r.out) = Cardinality({r.out[i] : i \in DOMAIN r.out})
           /\ r.op = "delete" =>
                 r.after = {e \in r.before : ~WithinTimes(e, NoTime, r.to)}

(***************************************************************************)
(* Properties of the reverse index of the passports                        *)
(***************************************************************************)
\* block.content() of every block of a chain, in order
RECURSIVE ChainContent(_)
ChainContent(bs) ==
    IF bs = <<>> THEN <<>> ELSE Content(Head(bs)) \o ChainContent(Tail(bs))

\* the last entry of a content about the key pk, 0 when there is none
LastEntryOf(content, pk) ==
    LET hits == {i \in DOMAIN content : content[i].key = pk}
    IN  IF hits = {} THEN 0 ELSE CHOOSE i \in hits : \A j \in hits : j <= i

\* C29: after the blocks of passport P are accepted, the reverse index
\* follows their content entries in order: a key last registered or set as
\* shared key is looked up as P (whatever it was mapped to before), a key
\* last deregistered is looked up as none; the id written is the id read.
C29_ReverseIndex ==
    LET l == passports.last
        content == ChainContent(l.chain)
    IN  (l.op = "put_passport" /\ l.ok) =>
           \A pk \in Hashes :
              LET i == LastEntryOf(content, pk)
                  g == PassportsGet(passports, <<pk>>)
              IN  i # 0 =>
                     IF content[i].op = "deregister_master_key"
                     THEN g.ok /\ ~g.found
                     ELSE g.ok /\ g.found /\ g.id = l.id

(***************************************************************************)
(* Properties of the message ids                                           *)
(***************************************************************************)
\* C30: the order of message ids follows the arrival time whatever the hash
\* part: time(a) < time(b) implies a < b in the order of the bytes; and
\* time(timed(t)) = t.
C30_OrderFollowsTime ==
    /\ (msgid.op = "ord" /\ U32Less(msgid.ta, msgid.tb)) => msgid.less
    /\ msgid.op = "timed" => msgid.back = msgid.t

\* an earlier id with the greater hash part is the lesser id
C30_Witness ==
    /\ msgid.op = "ord"
    /\ U32Less(msgid.ta, msgid.tb)
    /\ BytesLess(HashOf(msgid.b), HashOf(msgid.a))
    /\ msgid.ta[2] % 256 > msgid.tb[2] % 256
    /\ msgid.less

(***************************************************************************)
(* Properties of the caches of the Runner                                  *)
(***************************************************************************)
\* C31: the dedup cache never holds more than known_message_cache_size
\* digests, and a new digest that arrives at a full cache takes the place
\* of the oldest one: the digests kept are the most recent ones.
C31_OldestDiscarded ==
    [][/\ Len(known_cache') <= KnownMessageCacheSize
       /\ (/\ Len(known_cache) = KnownMessageCacheSize
           /\ Range(known_cache') \ Range(known_cache) # {})
          => /\ Len(known_cache') = KnownMessageCacheSize
             /\ SubSeq(known_cache', 1, Len(known_cache') - 1)
                    = Tail(known_cache)]_vars

\* C32: after next_gossip_peer answered id at the instant T, no
\* register_interest(id) before T + min_elapsed adds id to will_gossip, and
\* next_gossip_peer never answers the same identity twice within
\* min_elapsed.
C32_Cooldown ==
    [][LET l == gossipers'.last
           T == gossipers.returned[l.id]
           soon == l.id # 0 /\ T # NeverGossiped /\ l.at - T < MinElapsed
       IN  /\ (/\ l.op = "register_interest"
                /\ soon
                /\ l.id \notin Range(gossipers.will_gossip))
               => l.id \notin Range(gossipers'.will_gossip)
           /\ (/\ l.op = "next_gossip_peer"
                /\ gossipers'.will_gossip # gossipers.will_gossip)
               => ~soon]_vars

\* C32, amended: the cooldown lasts as long as has_gossiped remembers the
\* identity.  A register_interest(id) before T + min_elapsed adds nothing
\* while id is in has_gossiped, and next_gossip_peer answers an identity
\* again within min_elapsed only after history_size other identities
\* pushed it out of has_gossiped.
C32_CooldownWhileRemembered ==
    [][LET l == gossipers'.last
           T == gossipers.returned[l.id]
           soon == l.id # 0 /\ T # NeverGossiped /\ l.at - T < MinElapsed
       IN  /\ (/\ l.op = "register_interest"
               /\ soon
               /\ LruContains(gossipers.has_gossiped, l.id)
               /\ l.id \notin Range(gossipers.will_gossip))
              => l.id \notin Range(gossipers'.will_gossip)
           /\ (/\ l.op = "next_gossip_peer"
               /\ gossipers'.will_gossip # gossipers.will_gossip
               /\ soon)
              => ~LruContains(gossipers.has_gossiped, l.id)]_vars

\* a register_interest within min_elapsed of the gossip was discarded
C32_Witness ==
    LET l == gossipers.last
    IN  /\ l.op = "register_interest"
        /\ gossipers.returned[l.id] # NeverGossiped
        /\ l.at - gossipers.returned[l.id] < MinElapsed
        /\ LruContains(gossipers.has_gossiped, l.id)
        /\ l.id \notin Range(gossipers.will_gossip)
        /\ Len(gossipers.will_gossip) < GossipQueueSize

\* C33: will_gossip never holds more than queue_size identities, and when
\* register_interest finds the queue full the identity evicted is the one
\* that has waited longest: the others stay, the new one comes last.
C33_EvictsLongestWaiting ==
    [][LET l == gossipers'.last
       IN  /\ Len(gossipers'.will_gossip) <= GossipQueueSize
           /\ (/\ l.op = "register_interest"
               /\ Len(gossipers.will_gossip) = GossipQueueSize
               /\ l.id \notin Range(gossipers.will_gossip)
               /\ l.id \in Range(gossipers'.will_gossip))
              => gossipers'.will_gossip
                     = Append(Tail(gossipers.will_gossip), l.id)]_vars

(***************************************************************************)
(* Properties of the importer                                              *)
(***************************************************************************)
\* the blocks of loaded whose parents, up to the genesis block, are all in
\* loaded
RECURSIVE Connected(_, _)
Connected(loaded, h) ==
    \/ h = 1
    \/ h \in loaded /\ Connected(loaded, ChainPrevious(h))

\* C34: from an importer created with the genesis block, the other blocks
\* of a valid chain given to load in any order are all applied (a buffered
\* block as soon as its parent is), and finalize succeeds with nothing
\* pending; finalize fails iff some block given never had its parent
\* applied.
C34_AnyOrderAssembles ==
    /\ \A h \in importer.loaded :
           Connected(importer.loaded, h) => h \in Range(importer.current)
    /\ importer.result # "none" =>
           (importer.result = "error"
                <=> \E h \in importer.loaded :
                        ~Connected(importer.loaded, h))
    /\ importer.result = "ok" => importer.pending = {}

(***************************************************************************)
(* Properties of the Runner and the connection tasks together              *)
(***************************************************************************)
\* C35: the Runner and the connection tasks never deadlock: in no state is
\* the Runner suspended in send() on the full outbox of a peer while the
\* task of that peer is suspended pushing a message into the full inbound
\* queue.
C35_NoDeadlock ==
    ~(/\ runner.chan # NoConn
      /\ Len(conn[runner.chan].outbox) >= OutboxCapacity
      /\ conn[runner.chan].pc = "push"
      /\ Len(queue) >= MessageQueueSize)


\* C36: at most one outbound dial and one outbox exist per peer identity:
\* no two connect() tasks are dialling the same node at the same time, each
\* holding an outbox of its own that send / send_gossips may have filled
C36_OneDialPerPeer ==
    \A c, d \in Conns :
        (/\ c # d
         /\ conn[c].pc = "dialing"
         /\ conn[d].pc = "dialing") => conn[c].id # conn[d].id

\* C37: the task of a connection that ends removes the entry of its
\* identity from the map only when the entry is its own outbox: the entry of
\* another connection that is still running stays
C37_PopsOwnEntryOnly ==
    [][\A c \in Conns :
          (/\ conn[c].pc = "exit"
           /\ conn'[c].pc = "done"
           /\ LruContains(to, conn[c].id)
           /\ to[LruIndex(to, conn[c].id)].ch # c
           /\ conn[to[LruIndex(to, conn[c].id)].ch].pc \in {"run", "push"})
          => LruContains(to', conn[c].id)]_vars


\* C38: a Topic message whose storing fails leaves no trace: when the
\* Runner takes a novel Topic message from the queue and the topic logs are
\* not written, the digest of its body is not in the dedup cache afterwards
C38_NoDigestOnStorageError ==
    [][(/\ runner.pc = "select"
        /\ queue # <<>>
        /\ queue' = Tail(queue)
        /\ CheckNovel(known_cache, Digest(Head(queue).msg.body))
        /\ Head(queue).msg.topic \in subscribed
        /\ topic_log' = topic_log)
       => ~\E i \in 1 .. Len(known_cache') :
              known_cache'[i] = Digest(Head(queue).msg.body)]_vars


(***************************************************************************)
(* Properties of the subscriptions of the topology                         *)
(***************************************************************************)
\* C39: the topology follows the persisted subscriptions: a step that
\* registers a topic in the storage leaves it among the topics of the
\* topology, a step that deregisters it leaves it out of them
C39_TopologyFollowsStorage ==
    [][\A t \in Topics :
          /\ (t \notin subscribed /\ t \in subscribed')
                => t \in topology'.subs
          /\ (t \in subscribed /\ t \notin subscribed')
                => t \notin topology'.subs]_vars

(***************************************************************************)
(* Properties of the eviction loops                                        *)
(***************************************************************************)
\* C40: a call of MessageCache::check or GossipCache::register_interest
\* returns, whatever the bound of the cache, 0 included
C40_EvictionTerminates == <>(evict.pc = "done")

====
